---- MODULE Spec2Model ----
(***************************************************************************)
(* A state-machine model of the LKO agent's monitoring and remediation     *)
(* engine: the FAISS-backed VectorStore (agent/memory/vector_store.py),    *)
(* the ResourceManager escalator (agent/tools/resource_manager.py) and the *)
(* AgentDaemon scheduler (agent_daemon.py).                                *)
(*                                                                         *)
(* Three specifications share one set of variables:                        *)
(*   SpecStore   one VectorStore and its two persisted artifacts           *)
(*   SpecRM      one ResourceManager, called directly, and the processes   *)
(*   Spec        the daemon's run() loop, which owns a live-mode manager    *)
(*   FairSpec    Spec with weak fairness of the daemon's own steps         *)
(***************************************************************************)
EXTENDS Integers, Sequences, FiniteSets, TLC

VARIABLES
    \* ---- VectorStore (vector_store.py) ----
    index,               \* self.index: the stored embeddings, index.ntotal = Len(index)
    metadata,            \* self.metadata: list of metadata entries
    dicts,               \* the callers' metadata dict objects (Python passes them by reference)
    index_file,          \* artifact at index_path (faiss.index)
    metadata_file,       \* artifact at metadata_path (metadata.pkl)
    store_ret,           \* what the last VectorStore call returned (or that it raised)
    \* ---- ResourceManager (resource_manager.py) and the host's processes ----
    dry_run,             \* self.dry_run
    remediation_history, \* self.remediation_history
    procs,               \* the host's process table: pid -> [alive, nice, denied]
    signals,             \* signals the manager has sent so far: set of <<pid, signal>>
    rm_call,             \* the last call made on the manager (see RMApply), or NoCall
    \* ---- AgentDaemon (agent_daemon.py) ----
    running,             \* self.running
    pc,                  \* position of the main thread in run()
    now,                 \* the clock read by time.time(), in poll periods
    current_time,        \* run()'s local current_time
    last_health_check,   \* run()'s local last_health_check
    last_resource_check, \* run()'s local last_resource_check
    health_check_interval,   \* self.health_check_interval (config)
    resource_check_interval, \* self.resource_check_interval (config)
    hogs,                \* check_resources' local hogs (result of find_resource_hogs)
    events,              \* what the check in progress or just finished did, in order
    iter,                \* bookkeeping of the current loop iteration (see NoIter)
    signalled,           \* a shutdown signal was handled while the loop was running
    raised,              \* an exception escaped a check in the loop body
    early_signal,        \* a shutdown signal was handled before run() was called
    \* ---- two VectorStore instances on the same paths (vector_store.py) ----
    peers,               \* per instance: its memory (st) and its position in save()/load()
    written_by,          \* which instance wrote each artifact last
    interfered,          \* per instance: another instance wrote during its last save()
    \* ---- RunbookEngine (engine.py) ----
    runbooks,            \* self.runbooks
    context,             \* the context dict the caller passes
    engine_ret,          \* the last call made on the engine and what it returned
    \* ---- AgentPlanner, AgentExecutor, LKOAgent, AlertSystem ----
    available_tools,     \* planner.available_tools (config: tools.allowed_tools)
    executor_dry_run,    \* executor.dry_run (config: safety.dry_run)
    alert_enabled,       \* alerts.alert_enabled (config: daemon.alerts.enabled)
    agent_ret            \* the last call made on one of them and what it did

storeVars  == <<index, metadata, dicts, index_file, metadata_file, store_ret>>
rmVars     == <<dry_run, remediation_history, procs, signals, rm_call>>
daemonVars == <<running, pc, now, current_time, last_health_check, last_resource_check,
                health_check_interval, resource_check_interval, hogs, events, iter,
                signalled, raised, early_signal>>
sharedVars == <<peers, written_by, interfered>>
engineVars == <<runbooks, context, engine_ret>>
agentVars  == <<available_tools, executor_dry_run, alert_enabled, agent_ret>>
vars == <<storeVars, rmVars, daemonVars, sharedVars, engineVars, agentVars>>

---------------------------------------------------------------------------
(* Bounds of the model *)

\* longest store (records) explored
MaxLen == 2
\* number of distinct texts offered to the store
NumTexts == 2
\* number of metadata dict objects the callers hold
NumDicts == 2
\* longest add_batch argument list
MaxBatch == 2
\* most disk entries in a context
MaxDisks == 2
\* most runbooks in a runbooks file
MaxRunbooks == 2
\* most actions in a runbook
MaxActions == 2
\* most tools in a plan
MaxTools == 2

Texts   == 1..NumTexts
DictIds == 1..NumDicts
\* a persisted artifact: missing, or holding data, readable or not
NoFile  == [exists |-> FALSE, data |-> <<>>, corrupt |-> FALSE]
FileOf(data) == [exists |-> TRUE, data |-> data, corrupt |-> FALSE]

Min(a, b) == IF a <= b THEN a ELSE b

\* the element of a one-element set; {F(x) : x \in {e}} computes e once
Only(S) == CHOOSE x \in S : TRUE

---------------------------------------------------------------------------
(* VectorStore *)

\* The Embedder: deterministic, and not injective (texts 2 and 3 embed alike, when there are three).
\* The D-dimensional vector is abstracted to one coordinate.
embed_text(text) == text \div 2

\* A metadata list entry that is a caller's dict object (held by reference) ...
RefEntry(d) == [ref |-> d, payload |-> 0, text |-> 0]
\* ... or an object that pickle.load created (no caller holds it)
ValEntry(payload, text) == [ref |-> 0, payload |-> payload, text |-> text]

\* what a metadata list entry currently reads as
Content(e, ds) == IF e.ref # 0 THEN [payload |-> e.ref, text |-> ds[e.ref]]
                  ELSE [payload |-> e.payload, text |-> e.text]

\* pickle.dump(self.metadata): the contents, by value
Pickled(md, ds) == [i \in 1..Len(md) |-> ValEntry(Content(md[i], ds).payload, Content(md[i], ds).text)]

\* VectorStore.count()
count == Len(index)

\* What a VectorStore call returned, with the arguments the claims refer to:
\* value is add's id; text and dict are add's arguments; query, k, hits and
\* results belong to search (hits: the distances and indices index.search
\* returned, results: the list search returned); pairs is add_batch's
\* argument lists, zipped.
StoreRet(op, value) ==
    [op |-> op, value |-> value, text |-> 0, dict |-> 0, pairs |-> <<>>,
     query |-> 0, k |-> 0, hits |-> <<>>, results |-> <<>>]

StoreInit ==
    /\ index = <<>>
    /\ metadata = <<>>
    /\ dicts = [d \in DictIds |-> 0]
    /\ index_file = NoFile
    /\ metadata_file = NoFile
    /\ store_ret = StoreRet("init", 0)

\* add putting the metadata at the front of the list (insert(0, ...) for append)
AddPrepending(text, d) ==
    /\ Len(index) < MaxLen
    /\ Len(metadata) < MaxLen
    /\ index' = Append(index, embed_text(text))
    /\ dicts' = [dicts EXCEPT ![d] = text]
    /\ metadata' = <<RefEntry(d)>> \o metadata
    /\ store_ret' = [StoreRet("add", Len(metadata') - 1) EXCEPT !.text = text, !.dict = d]
    /\ UNCHANGED <<index_file, metadata_file>>

\* one store instance's memory: its index, its metadata list and the dict
\* objects of its process
Store == [index |-> index, metadata |-> metadata, dicts |-> dicts]

\* add(text, metadata_dict) on the instance st: lines 48-57
add(st, text, d) ==
    [index |-> Append(st.index, embed_text(text)),
     metadata |-> Append(st.metadata, RefEntry(d)),
     dicts |-> [st.dicts EXCEPT ![d] = text]]

\* add(text, metadata_dict), the Embedder answering
Add(text, d) ==
    /\ Len(index) < MaxLen
    /\ Len(metadata) < MaxLen
    /\ index' = add(Store, text, d).index
    /\ dicts' = add(Store, text, d).dicts
    /\ metadata' = add(Store, text, d).metadata
    /\ store_ret' = [StoreRet("add", Len(metadata') - 1) EXCEPT !.text = text, !.dict = d]
    /\ UNCHANGED <<index_file, metadata_file>>

\* add / add_batch with the Embedder raising: the call ends before any mutation
AddEmbedderRaises ==
    /\ store_ret' = StoreRet("raised", 0)
    /\ UNCHANGED <<index, metadata, dicts, index_file, metadata_file>>

RECURSIVE BatchDicts(_, _)
\* the for loop of add_batch: meta['text'] = text for each pair, in order
BatchDicts(pairs, ds) ==
    IF pairs = <<>> THEN ds
    ELSE BatchDicts(Tail(pairs), [ds EXCEPT ![Head(pairs)[2]] = Head(pairs)[1]])

\* add_batch taking the metadata list from its end: the records come out
\* against the wrong texts
AddBatchReversed(pairs) ==
    /\ Len(index) + Len(pairs) <= MaxLen
    /\ Len(metadata) + Len(pairs) <= MaxLen
    /\ index' = index \o [i \in 1..Len(pairs) |-> embed_text(pairs[i][1])]
    /\ dicts' = BatchDicts(pairs, dicts)
    /\ metadata' = metadata \o [i \in 1..Len(pairs) |-> RefEntry(pairs[Len(pairs) + 1 - i][2])]
    /\ store_ret' = [StoreRet("add_batch", 0) EXCEPT !.pairs = pairs]
    /\ UNCHANGED <<index_file, metadata_file>>

\* add_batch(texts, metadata_list) with len(texts) = len(metadata_list) = Len(pairs)
AddBatch(pairs) ==
    /\ Len(index) + Len(pairs) <= MaxLen
    /\ Len(metadata) + Len(pairs) <= MaxLen
    /\ index' = index \o [i \in 1..Len(pairs) |-> embed_text(pairs[i][1])]
    /\ dicts' = BatchDicts(pairs, dicts)
    /\ metadata' = metadata \o [i \in 1..Len(pairs) |-> RefEntry(pairs[i][2])]
    /\ store_ret' = [StoreRet("add_batch", 0) EXCEPT !.pairs = pairs]
    /\ UNCHANGED <<index_file, metadata_file>>

\* save() that writes the index and forgets the metadata side file
SaveIndexOnly ==
    /\ index_file' = FileOf(index)
    /\ store_ret' = StoreRet("save", 0)
    /\ UNCHANGED <<index, metadata, dicts, metadata_file>>

\* save(): faiss.write_index, then pickle.dump
Save ==
    /\ index_file' = FileOf(index)
    /\ metadata_file' = FileOf(Pickled(metadata, dicts))
    /\ store_ret' = StoreRet("save", 0)
    /\ UNCHANGED <<index, metadata, dicts>>

\* a new instance before __init__ loads or creates its index
Fresh(ds) == [index |-> <<>>, metadata |-> <<>>, dicts |-> ds]

\* load() on the instance st with the artifacts ifile and mfile: the instance
\* afterwards, and whether load raised (faiss.read_index and pickle.load raise
\* on an artifact they cannot read; nothing in load catches it)
load(st, ifile, mfile) ==
    IF ~ifile.exists
    THEN [st |-> [st EXCEPT !.index = <<>>], raised |-> FALSE]   \* _create_new_index()
    ELSE IF ifile.corrupt
    THEN [st |-> st, raised |-> TRUE]
    ELSE IF ~mfile.exists
    THEN [st |-> [st EXCEPT !.index = ifile.data], raised |-> FALSE]
    ELSE IF mfile.corrupt
    THEN [st |-> [st EXCEPT !.index = ifile.data], raised |-> TRUE]
    ELSE [st |-> [st EXCEPT !.index = ifile.data, !.metadata = mfile.data], raised |-> FALSE]

\* load()
Load ==
    LET o == load(Store, index_file, metadata_file) IN
    /\ index' = o.st.index
    /\ metadata' = o.st.metadata
    /\ store_ret' = StoreRet(IF o.raised THEN "load_raised" ELSE "load", 0)
    /\ UNCHANGED <<dicts, index_file, metadata_file>>

\* VectorStore(...): a fresh instance on the same paths. When __init__ raises
\* the caller gets no instance.
Construct ==
    LET o == load(Fresh(dicts), index_file, metadata_file) IN
    /\ index' = IF o.raised THEN <<>> ELSE o.st.index
    /\ metadata' = IF o.raised THEN <<>> ELSE o.st.metadata
    /\ store_ret' = StoreRet(IF o.raised THEN "construct_raised" ELSE "construct", 0)
    /\ UNCHANGED <<dicts, index_file, metadata_file>>

\* an artifact disappears (removed, or save() died between its two writes)
ArtifactLost(which) ==
    /\ IF which = "index"
       THEN index_file.exists /\ index_file' = NoFile /\ UNCHANGED metadata_file
       ELSE metadata_file.exists /\ metadata_file' = NoFile /\ UNCHANGED index_file
    /\ store_ret' = StoreRet("none", 0)
    /\ UNCHANGED <<index, metadata, dicts>>

\* an artifact becomes unreadable (truncated, overwritten, permissions)
ArtifactCorrupted(which) ==
    /\ IF which = "index"
       THEN /\ index_file.exists /\ ~index_file.corrupt
            /\ index_file' = [index_file EXCEPT !.corrupt = TRUE, !.data = <<>>]
            /\ UNCHANGED metadata_file
       ELSE /\ metadata_file.exists /\ ~metadata_file.corrupt
            /\ metadata_file' = [metadata_file EXCEPT !.corrupt = TRUE, !.data = <<>>]
            /\ UNCHANGED index_file
    /\ store_ret' = StoreRet("none", 0)
    /\ UNCHANGED <<index, metadata, dicts>>

\* squared Euclidean distance of two embeddings (IndexFlatL2's metric)
L2sq(a, b) == (a - b) * (a - b)

\* faiss IndexFlatL2.search(query_embedding, k) for k <= ntotal: the exact k
\* nearest stored vectors by ascending distance, equal distances by ascending
\* id. hits[r] is (distances[0][r-1], indices[0][r-1]); ids count from 0.
IndexSearch(idx, q, k) ==
    LET n == Len(idx)
        before(j, i) == \/ L2sq(idx[j], q) < L2sq(idx[i], q)
                        \/ L2sq(idx[j], q) = L2sq(idx[i], q) /\ j < i
        rank(i) == Cardinality({j \in 1..n : before(j, i)}) + 1
        at(r) == CHOOSE i \in 1..n : rank(i) = r
    IN [r \in 1..k |-> [dist |-> L2sq(idx[at(r)], q), idx |-> at(r) - 1]]

\* a similarity growing with the distance: the conversion inverted
SimilarityGrowing(dist) == <<1 + dist, 1>>

\* similarity = 1 / (1 + dist), as the fraction <<numerator, denominator>>
Similarity(dist) == <<1, 1 + dist>>

\* the results loop with `idx < len(self.metadata) - 1`: the newest record is
\* never returned
search_dropping_last(idx, md, query, k) ==
    IF Len(idx) = 0 THEN [hits |-> <<>>, results |-> <<>>]
    ELSE LET hits == IndexSearch(idx, embed_text(query), Min(k, Len(idx)))
             kept == SelectSeq(hits, LAMBDA h : h.idx < Len(md) - 1)
         IN [hits |-> hits,
             results |-> [r \in 1..Len(kept) |->
                             [meta |-> md[kept[r].idx + 1],
                              similarity |-> Similarity(kept[r].dist)]]]

\* search(query, k) on index idx and metadata list md: the (metadata,
\* similarity) tuples it returns, and the hits they were made from
search(idx, md, query, k) ==
    IF Len(idx) = 0 THEN [hits |-> <<>>, results |-> <<>>]
    ELSE LET hits == IndexSearch(idx, embed_text(query), Min(k, Len(idx)))
             kept == SelectSeq(hits, LAMBDA h : h.idx < Len(md))
         IN [hits |-> hits,
             results |-> [r \in 1..Len(kept) |->
                             [meta |-> md[kept[r].idx + 1],
                              similarity |-> Similarity(kept[r].dist)]]]

\* search(query, k) called on the store. When the call before it was an add,
\* text and dict keep that add's arguments (0 otherwise).
Search(query, k) ==
    LET found == search(index, metadata, query, k) IN
    /\ store_ret' = [StoreRet("search", 0) EXCEPT
                        !.query = query, !.k = k,
                        !.hits = found.hits, !.results = found.results,
                        !.text = IF store_ret.op = "add" THEN store_ret.text ELSE 0,
                        !.dict = IF store_ret.op = "add" THEN store_ret.dict ELSE 0]
    /\ UNCHANGED <<index, metadata, dicts, index_file, metadata_file>>

\* the k values searches are made with: up to one more than the store can hold
Ks == 1..(MaxLen + 1)

Pairs == Texts \X DictIds
Batches == UNION {[1..n -> Pairs] : n \in 1..MaxBatch}


---------------------------------------------------------------------------
(* ResourceManager and the processes it acts on *)

\* number of processes on the host
NumPids == 4
\* longest remediation_history explored under SpecRM
MaxHistory == 2
\* number of processes the manager is called on under SpecRM
NumTargets == 3

Pids == 1..NumPids
\* the pids callers pass to the manager under SpecRM (they also end by themselves)
Targets == 1..NumTargets
\* renice_process' default new_nice
DefaultNice == 19
\* the niceness values processes start with, and the targets callers pass
NiceValues == {0, 10, DefaultNice}

\* a process that has exited (psutil raises NoSuchProcess for its pid)
Gone == [alive |-> FALSE, nice |-> 0, denied |-> FALSE]

\* The process table the host starts with: every pid alive; niceness and
\* whether the agent may change the process (denied: AccessDenied) vary by pid.
InitProc(p) ==
    CASE p % 4 = 1 -> [alive |-> TRUE, nice |-> 0, denied |-> FALSE]
      [] p % 4 = 2 -> [alive |-> TRUE, nice |-> DefaultNice, denied |-> FALSE]
      [] p % 4 = 3 -> [alive |-> TRUE, nice |-> 0, denied |-> TRUE]
      [] OTHER     -> [alive |-> TRUE, nice |-> 10, denied |-> FALSE]

\* the part of the world one tier reads and writes
World(ps, sg, hist) == [procs |-> ps, signals |-> sg, history |-> hist]

\* a result dict; keys a dict lacks read 0 / FALSE here
Result(action, success, message) ==
    [action |-> action, success |-> success, message |-> message,
     dry_run |-> FALSE, pid |-> 0, old_nice |-> 0, new_nice |-> 0, timestamp |-> FALSE]

\* one tier's outcome: the world after it and the dict it returns
Outcome(w, result) == [w |-> w, result |-> result]

\* Each tier makes three psutil calls in order: 1 psutil.Process(pid), 2 a read
\* (proc.nice() or proc.name()) and 3 the action (proc.nice(n), terminate(),
\* kill()). The process may end on its own while the tier runs: exit_at names
\* the call it ends just before (0: it does not end during the tier; ending
\* before call 1 is ending before the tier, the host's ProcExit step). An
\* exit placed before a call the tier never reaches does not happen in the tier.
ExitPoints == {0, 2, 3}

\* the world once process pid has ended
Exited(w, pid) == [w EXCEPT !.procs[pid] = Gone]

\* the three tiers, in escalation order
Tiers == <<"renice", "graceful_stop", "force_kill">>

\* renice_process whose comparison with the target is missing: it sets the
\* target niceness whatever the current one
renice_process_unguarded(w, dr, pid, new_nice, exit_at) ==
    LET p == w.procs[pid] IN
    IF ~p.alive THEN Outcome(w, Result("renice", FALSE, "not found"))
    ELSE IF exit_at = 2 THEN Outcome(Exited(w, pid), Result("renice", FALSE, "not found"))
    ELSE IF dr THEN Outcome(w, [Result("renice", TRUE, "would renice") EXCEPT !.dry_run = TRUE])
    ELSE IF exit_at = 3 THEN Outcome(Exited(w, pid), Result("renice", FALSE, "not found"))
    ELSE IF p.denied THEN Outcome(w, Result("renice", FALSE, "permission denied"))
    ELSE LET result == [Result("renice", TRUE, "reniced") EXCEPT
                           !.pid = pid, !.old_nice = p.nice, !.new_nice = new_nice,
                           !.timestamp = TRUE]
         IN Outcome([w EXCEPT !.procs[pid].nice = new_nice,
                              !.history = Append(@, result)], result)

\* renice_process that reports the change without making it: proc.nice(new_nice)
\* is never called
renice_process_not_applied(w, dr, pid, new_nice, exit_at) ==
    LET p == w.procs[pid] IN
    IF ~p.alive THEN Outcome(w, Result("renice", FALSE, "not found"))
    ELSE IF exit_at = 2 THEN Outcome(Exited(w, pid), Result("renice", FALSE, "not found"))
    ELSE IF p.nice >= new_nice THEN Outcome(w, Result("renice", FALSE, "already at nice"))
    ELSE IF dr THEN Outcome(w, [Result("renice", TRUE, "would renice") EXCEPT !.dry_run = TRUE])
    ELSE IF exit_at = 3 THEN Outcome(Exited(w, pid), Result("renice", FALSE, "not found"))
    ELSE IF p.denied THEN Outcome(w, Result("renice", FALSE, "permission denied"))
    ELSE LET result == [Result("renice", TRUE, "reniced") EXCEPT
                           !.pid = pid, !.old_nice = p.nice, !.new_nice = new_nice,
                           !.timestamp = TRUE]
         IN Outcome([w EXCEPT !.history = Append(@, result)], result)

\* renice_process(pid, new_nice) under execution mode dr
renice_process(w, dr, pid, new_nice, exit_at) ==
    LET p == w.procs[pid] IN
    IF ~p.alive THEN Outcome(w, Result("renice", FALSE, "not found"))
    ELSE IF exit_at = 2 THEN Outcome(Exited(w, pid), Result("renice", FALSE, "not found"))
    ELSE IF p.nice >= new_nice THEN Outcome(w, Result("renice", FALSE, "already at nice"))
    ELSE IF dr THEN Outcome(w, [Result("renice", TRUE, "would renice") EXCEPT !.dry_run = TRUE])
    ELSE IF exit_at = 3 THEN Outcome(Exited(w, pid), Result("renice", FALSE, "not found"))
    ELSE IF p.denied THEN Outcome(w, Result("renice", FALSE, "permission denied"))
    ELSE LET result == [Result("renice", TRUE, "reniced") EXCEPT
                           !.pid = pid, !.old_nice = p.nice, !.new_nice = new_nice,
                           !.timestamp = TRUE]
         IN Outcome([w EXCEPT !.procs[pid].nice = new_nice,
                              !.history = Append(@, result)], result)

\* graceful_stop without its `except psutil.AccessDenied`: the exception
\* leaves the tier (no dict is returned)
graceful_stop_denied_uncaught(w, dr, pid, exits, exit_at) ==
    LET p == w.procs[pid] IN
    IF ~p.alive THEN Outcome(w, Result("graceful_stop", FALSE, "not found"))
    ELSE IF exit_at = 2 THEN Outcome(Exited(w, pid), Result("graceful_stop", FALSE, "not found"))
    ELSE IF dr THEN Outcome(w, [Result("graceful_stop", TRUE, "would send SIGTERM") EXCEPT !.dry_run = TRUE])
    ELSE IF exit_at = 3 THEN Outcome(Exited(w, pid), Result("graceful_stop", FALSE, "not found"))
    ELSE IF p.denied THEN Outcome(w, Result("raised", FALSE, "psutil.AccessDenied"))
    ELSE LET result == [Result("graceful_stop", exits,
                               IF exits THEN "stopped gracefully" ELSE "did not stop") EXCEPT
                           !.pid = pid, !.timestamp = TRUE]
         IN Outcome([w EXCEPT !.procs[pid] = IF exits THEN Gone ELSE @,
                              !.signals = @ \cup {<<pid, "SIGTERM">>},
                              !.history = Append(@, result)], result)

\* graceful_stop that escalates by itself: SIGKILL when the wait times out
graceful_stop_killing_on_timeout(w, dr, pid, exits, exit_at) ==
    LET p == w.procs[pid] IN
    IF ~p.alive THEN Outcome(w, Result("graceful_stop", FALSE, "not found"))
    ELSE IF exit_at = 2 THEN Outcome(Exited(w, pid), Result("graceful_stop", FALSE, "not found"))
    ELSE IF dr THEN Outcome(w, [Result("graceful_stop", TRUE, "would send SIGTERM") EXCEPT !.dry_run = TRUE])
    ELSE IF exit_at = 3 THEN Outcome(Exited(w, pid), Result("graceful_stop", FALSE, "not found"))
    ELSE IF p.denied THEN Outcome(w, Result("graceful_stop", FALSE, "permission denied"))
    ELSE LET result == [Result("graceful_stop", exits,
                               IF exits THEN "stopped gracefully" ELSE "did not stop") EXCEPT
                           !.pid = pid, !.timestamp = TRUE]
         IN Outcome([w EXCEPT !.procs[pid] = Gone,
                              !.signals = @ \cup (IF exits THEN {<<pid, "SIGTERM">>}
                                                  ELSE {<<pid, "SIGTERM">>, <<pid, "SIGKILL">>}),
                              !.history = Append(@, result)], result)

\* graceful_stop(pid); exits: the process ends within wait_seconds of SIGTERM
graceful_stop(w, dr, pid, exits, exit_at) ==
    LET p == w.procs[pid] IN
    IF ~p.alive THEN Outcome(w, Result("graceful_stop", FALSE, "not found"))
    ELSE IF exit_at = 2 THEN Outcome(Exited(w, pid), Result("graceful_stop", FALSE, "not found"))
    ELSE IF dr THEN Outcome(w, [Result("graceful_stop", TRUE, "would send SIGTERM") EXCEPT !.dry_run = TRUE])
    ELSE IF exit_at = 3 THEN Outcome(Exited(w, pid), Result("graceful_stop", FALSE, "not found"))
    ELSE IF p.denied THEN Outcome(w, Result("graceful_stop", FALSE, "permission denied"))
    ELSE LET result == [Result("graceful_stop", exits,
                               IF exits THEN "stopped gracefully" ELSE "did not stop") EXCEPT
                           !.pid = pid, !.timestamp = TRUE]
         IN Outcome([w EXCEPT !.procs[pid] = IF exits THEN Gone ELSE @,
                              !.signals = @ \cup {<<pid, "SIGTERM">>},
                              !.history = Append(@, result)], result)

\* force_kill without its dry_run test: the preview kills
force_kill_ignoring_dry_run(w, dr, pid, exit_at) ==
    LET p == w.procs[pid] IN
    IF ~p.alive THEN Outcome(w, Result("force_kill", FALSE, "already gone"))
    ELSE IF exit_at \in 2..3 THEN Outcome(Exited(w, pid), Result("force_kill", FALSE, "already gone"))
    ELSE IF p.denied THEN Outcome(w, Result("force_kill", FALSE, "permission denied"))
    ELSE LET result == [Result("force_kill", TRUE, "force killed") EXCEPT
                           !.pid = pid, !.timestamp = TRUE]
         IN Outcome([w EXCEPT !.procs[pid] = Gone,
                              !.signals = @ \cup {<<pid, "SIGKILL">>},
                              !.history = Append(@, result)], result)

\* force_kill(pid)
force_kill(w, dr, pid, exit_at) ==
    LET p == w.procs[pid] IN
    IF ~p.alive THEN Outcome(w, Result("force_kill", FALSE, "already gone"))
    ELSE IF exit_at = 2 THEN Outcome(Exited(w, pid), Result("force_kill", FALSE, "already gone"))
    ELSE IF dr THEN Outcome(w, [Result("force_kill", TRUE, "would send SIGKILL") EXCEPT !.dry_run = TRUE])
    ELSE IF exit_at = 3 THEN Outcome(Exited(w, pid), Result("force_kill", FALSE, "already gone"))
    ELSE IF p.denied THEN Outcome(w, Result("force_kill", FALSE, "permission denied"))
    ELSE LET result == [Result("force_kill", TRUE, "force killed") EXCEPT
                           !.pid = pid, !.timestamp = TRUE]
         IN Outcome([w EXCEPT !.procs[pid] = Gone,
                              !.signals = @ \cup {<<pid, "SIGKILL">>},
                              !.history = Append(@, result)], result)

\* the exit point handed to tier t when the process ends in tier `tier`
ExitIn(tier, exit_at, t) == IF tier = t THEN exit_at ELSE 0

\* smart_remediate escalating in every mode: all three tiers, live too
smart_remediate_escalating(w, dr, pid, tier, exit_at) ==
    LET r1 == renice_process(w, dr, pid, DefaultNice, ExitIn(tier, exit_at, 1))
        r2 == graceful_stop(r1.w, dr, pid, FALSE, ExitIn(tier, exit_at, 2))
        r3 == force_kill(r2.w, dr, pid, ExitIn(tier, exit_at, 3))
    IN [w |-> r3.w, actions |-> <<r1.result, r2.result, r3.result>>]

\* smart_remediate giving up at the first tier that fails
smart_remediate_stopping_on_failure(w, dr, pid, tier, exit_at) ==
    LET r1 == renice_process(w, dr, pid, DefaultNice, ExitIn(tier, exit_at, 1)) IN
    IF dr /\ r1.result.success
    THEN LET r2 == graceful_stop(r1.w, dr, pid, FALSE, ExitIn(tier, exit_at, 2))
             r3 == force_kill(r2.w, dr, pid, ExitIn(tier, exit_at, 3))
         IN [w |-> r3.w, actions |-> <<r1.result, r2.result, r3.result>>]
    ELSE [w |-> r1.w, actions |-> <<r1.result>>]

\* smart_remediate(pid): the world after it and the list of dicts it returns.
\* The later tiers run only under dry_run, where graceful_stop never waits.
\* The process may end on its own in tier `tier` at exit_at.
smart_remediate(w, dr, pid, tier, exit_at) ==
    LET r1 == renice_process(w, dr, pid, DefaultNice, ExitIn(tier, exit_at, 1)) IN
    IF dr
    THEN LET r2 == graceful_stop(r1.w, dr, pid, FALSE, ExitIn(tier, exit_at, 2))
             r3 == force_kill(r2.w, dr, pid, ExitIn(tier, exit_at, 3))
         IN [w |-> r3.w, actions |-> <<r1.result, r2.result, r3.result>>]
    ELSE [w |-> r1.w, actions |-> <<r1.result>>]

\* no call yet, or the host changed since the last one
NoCall == [op |-> "none", pid |-> 0, arg |-> 0, exit_at |-> 0, again |-> FALSE,
           results |-> <<>>]

\* The manager's and the host's state become world w, and the call is recorded:
\* what was called with which arguments (arg: the renice target), what it
\* returned, where in it the process ended by itself (exit_at, 0 if it did
\* not), and whether it repeats the call before it (again).
RMApply(w, op, pid, arg, exit_at, results) ==
    /\ procs' = w.procs
    /\ signals' = w.signals
    /\ remediation_history' = w.history
    /\ rm_call' = [op |-> op, pid |-> pid, arg |-> arg,
                   exit_at |-> IF procs[pid].alive /\ ~w.procs[pid].alive
                                  /\ ~results[Len(results)].timestamp
                               THEN exit_at ELSE 0,
                   again |-> rm_call.op = op /\ rm_call.pid = pid /\ rm_call.arg = arg,
                   results |-> results]
    /\ UNCHANGED dry_run

TheWorld == World(procs, signals, remediation_history)

ReniceCall(pid, new_nice, exit_at) ==
    LET o == renice_process(TheWorld, dry_run, pid, new_nice, exit_at) IN
    /\ exit_at # 0 => procs[pid].alive
    /\ Len(remediation_history) < MaxHistory
    /\ RMApply(o.w, "renice_process", pid, new_nice, exit_at, <<o.result>>)

GracefulStopCall(pid, exits, exit_at) ==
    LET o == graceful_stop(TheWorld, dry_run, pid, exits, exit_at) IN
    /\ exit_at # 0 => procs[pid].alive
    /\ Len(remediation_history) < MaxHistory
    /\ RMApply(o.w, "graceful_stop", pid, 0, exit_at, <<o.result>>)

ForceKillCall(pid, exit_at) ==
    LET o == force_kill(TheWorld, dry_run, pid, exit_at) IN
    /\ exit_at # 0 => procs[pid].alive
    /\ Len(remediation_history) < MaxHistory
    /\ RMApply(o.w, "force_kill", pid, 0, exit_at, <<o.result>>)

SmartRemediateCall(pid, tier, exit_at) ==
    LET o == smart_remediate(TheWorld, dry_run, pid, tier, exit_at) IN
    /\ exit_at # 0 => procs[pid].alive
    /\ tier # 1 => dry_run /\ exit_at # 0
    /\ Len(remediation_history) < MaxHistory
    /\ RMApply(o.w, "smart_remediate", pid, 0, exit_at, o.actions)

\* In the calls above an exit inside the tier is offered only for a process
\* that is running, and a tier after the first only where it makes a
\* difference (the later tiers run under dry_run only).

\* a process ends on its own
ProcExit(pid) ==
    /\ procs[pid].alive
    /\ procs' = [procs EXCEPT ![pid] = Gone]
    /\ rm_call' = NoCall
    /\ UNCHANGED <<dry_run, remediation_history, signals>>

RMInit ==
    /\ remediation_history = <<>>
    /\ procs = [p \in Pids |-> InitProc(p)]
    /\ signals = {}
    /\ rm_call = NoCall

---------------------------------------------------------------------------
(* AgentDaemon *)

\* the clock stops being advanced here (in poll periods)
MaxTime == 3
\* largest configured interval explored (in poll periods)
MaxInterval == 2
\* latest clock reading at which the daemon is started
MaxStart == 1
\* check_resources handles hogs[:3]
HogLimit == 3

\* positions of run() inside the while loop
LoopPcs == {"loop", "health_test", "in_health", "resource_test", "in_resource", "sleep"}

\* Bookkeeping of the loop iterations, for stating the timing claims:
\*   count           iterations started so far, saturating at 2
\*   lh0, lr0        last_health_check / last_resource_check when the iteration began
\*   ran_health, ran_resource   the check was started in this iteration
\*   health_raised   this iteration's health check raised
\*   had_health, prev_health    an earlier iteration started the health check, and its timestamp
\*   had_resource, prev_resource   likewise for the resource check
NoIter == [count |-> 0, lh0 |-> 0, lr0 |-> 0, ran_health |-> FALSE, ran_resource |-> FALSE,
           health_raised |-> FALSE,
           had_health |-> FALSE, prev_health |-> 0, had_resource |-> FALSE, prev_resource |-> 0]

DaemonInit ==
    /\ running = FALSE
    /\ pc = "init"
    /\ current_time = 0
    /\ last_health_check = 0
    /\ last_resource_check = 0
    /\ hogs = <<>>
    /\ events = <<>>
    /\ iter = NoIter
    /\ signalled = FALSE
    /\ raised = FALSE
    /\ early_signal = FALSE

\* an entry of events
Event(kind, pid, ok, tag, results) ==
    [kind |-> kind, pid |-> pid, ok |-> ok, tag |-> tag, results |-> results]

\* handle_shutdown(signum, frame)
HandleShutdown ==
    /\ pc # "returned"
    /\ running' = FALSE
    /\ signalled' = (signalled \/ pc \in LoopPcs)
    /\ early_signal' = (early_signal \/ pc = "init")
    /\ UNCHANGED <<pc, now, current_time, last_health_check, last_resource_check,
                   health_check_interval, resource_check_interval, hogs, events, iter, raised>>

\* run() taking the clock reading as the baseline of both checks
RunBaselineNow ==
    /\ pc = "init"
    /\ running' = TRUE
    /\ last_health_check' = now
    /\ last_resource_check' = now
    /\ pc' = "loop"
    /\ UNCHANGED <<now, current_time, health_check_interval, resource_check_interval,
                   hogs, events, iter, signalled, raised, early_signal>>

\* run(), up to the try
Run ==
    /\ pc = "init"
    /\ running' = TRUE
    /\ last_health_check' = 0
    /\ last_resource_check' = 0
    /\ pc' = "loop"
    /\ UNCHANGED <<now, current_time, health_check_interval, resource_check_interval,
                   hogs, events, iter, signalled, raised, early_signal>>

\* the loop as "while True": the flag is never looked at
LoopEnterIgnoringFlag ==
    /\ pc = "loop"
    /\ current_time' = now
    /\ iter' = [iter EXCEPT !.count = Min(@ + 1, 2), !.lh0 = last_health_check,
                            !.lr0 = last_resource_check, !.ran_health = FALSE,
                            !.ran_resource = FALSE, !.health_raised = FALSE]
    /\ pc' = "health_test"
    /\ UNCHANGED <<running, now, last_health_check, last_resource_check,
                   health_check_interval, resource_check_interval, hogs, events,
                   signalled, raised, early_signal>>

\* while self.running: current_time = time.time()
LoopEnter ==
    /\ pc = "loop"
    /\ running
    /\ current_time' = now
    /\ iter' = [iter EXCEPT !.count = Min(@ + 1, 2), !.lh0 = last_health_check,
                            !.lr0 = last_resource_check, !.ran_health = FALSE,
                            !.ran_resource = FALSE, !.health_raised = FALSE]
    /\ pc' = "health_test"
    /\ UNCHANGED <<running, now, last_health_check, last_resource_check,
                   health_check_interval, resource_check_interval, hogs, events,
                   signalled, raised, early_signal>>

\* while self.running is false: the loop ends, finally prints, run() returns
LoopExit ==
    /\ pc = "loop"
    /\ ~running
    /\ pc' = "returned"
    /\ UNCHANGED <<running, now, current_time, last_health_check, last_resource_check,
                   health_check_interval, resource_check_interval, hogs, events, iter,
                   signalled, raised, early_signal>>

\* the health test with > for >=
HealthCheckDueStrict == current_time - last_health_check > health_check_interval

\* if current_time - last_health_check >= self.health_check_interval
HealthCheckDue == current_time - last_health_check >= health_check_interval

\* if current_time - last_resource_check >= self.resource_check_interval
ResourceCheckDue == current_time - last_resource_check >= resource_check_interval

\* the health test succeeds: run_health_check() is entered
HealthDue ==
    /\ pc = "health_test"
    /\ HealthCheckDue
    /\ pc' = "in_health"
    /\ iter' = [iter EXCEPT !.ran_health = TRUE, !.had_health = TRUE,
                            !.prev_health = current_time]
    /\ UNCHANGED <<running, now, current_time, last_health_check, last_resource_check,
                   health_check_interval, resource_check_interval, hogs, events,
                   signalled, raised, early_signal>>

HealthNotDue ==
    /\ pc = "health_test"
    /\ ~HealthCheckDue
    /\ pc' = "resource_test"
    /\ UNCHANGED <<running, now, current_time, last_health_check, last_resource_check,
                   health_check_interval, resource_check_interval, hogs, events, iter,
                   signalled, raised, early_signal>>

\* where control goes when a check raises inside the try: except Exception
OnException == "except"

\* run_health_check() returns after dur poll periods; last_health_check = current_time
RunHealthCheck(dur) ==
    /\ pc = "in_health"
    /\ now + dur <= MaxTime
    /\ now' = now + dur
    /\ last_health_check' = current_time
    /\ pc' = "resource_test"
    /\ UNCHANGED <<running, current_time, last_resource_check,
                   health_check_interval, resource_check_interval, hogs, events, iter,
                   signalled, raised, early_signal>>

\* run_health_check() raises (log_incident is the call in it that can)
RunHealthCheckRaises ==
    /\ pc = "in_health"
    /\ pc' = OnException
    /\ raised' = TRUE
    /\ iter' = [iter EXCEPT !.health_raised = TRUE]
    /\ UNCHANGED <<running, now, current_time, last_health_check, last_resource_check,
                   health_check_interval, resource_check_interval, hogs, events, signalled,
                   early_signal>>

RECURSIVE SeqOfSet(_)
\* the pids of S in increasing order
SeqOfSet(S) ==
    IF S = {} THEN <<>>
    ELSE LET m == CHOOSE x \in S : \A y \in S : x <= y IN <<m>> \o SeqOfSet(S \ {m})

\* find_resource_hogs(): the live processes over a threshold, heaviest first.
\* Usage is not modelled: pids are numbered by usage (pid 1 the heaviest) and
\* the k heaviest processes are over the thresholds, for any k.
find_resource_hogs(ps, k) == SeqOfSet({p \in 1..k : ps[p].alive})

\* the resource test succeeds: check_resources() is entered and probes the host
ResourceDue(k) ==
    /\ pc = "resource_test"
    /\ ResourceCheckDue
    /\ hogs' = find_resource_hogs(procs, k)
    /\ events' = <<>>
    /\ iter' = [iter EXCEPT !.ran_resource = TRUE, !.had_resource = TRUE,
                            !.prev_resource = current_time]
    /\ pc' = "in_resource"
    /\ UNCHANGED <<running, now, current_time, last_health_check, last_resource_check,
                   health_check_interval, resource_check_interval, signalled, raised, early_signal>>

ResourceNotDue ==
    /\ pc = "resource_test"
    /\ ~ResourceCheckDue
    /\ pc' = "sleep"
    /\ UNCHANGED <<running, now, current_time, last_health_check, last_resource_check,
                   health_check_interval, resource_check_interval, hogs, events, iter,
                   signalled, raised, early_signal>>

\* a process found by the probe ends before check_resources reaches it
HogExits(pid) ==
    /\ pc = "in_resource"
    /\ \E i \in 1..Len(hogs) : hogs[i] = pid
    /\ procs[pid].alive
    /\ procs' = [procs EXCEPT ![pid] = Gone]
    /\ UNCHANGED <<dry_run, remediation_history, signals, rm_call>>

\* the loop over hogs without the [:3]
HogsUntruncated(hs) == hs

\* hogs[:3]
HogsToProcess(hs) == SubSeq(hs, 1, Min(HogLimit, Len(hs)))

\* the loop body with smart_remediate called before the alert
HandleHogRemediatingFirst(st, dr, pid) ==
    Only({[w |-> o.w,
           events |-> st.events \o <<Event("remediate", pid, o.actions[1].success, "", o.actions),
                                     Event("alert", pid, TRUE, "WARNING", <<>>)>>,
           raised |-> FALSE] : o \in {smart_remediate(st.w, dr, pid, 0, 0)}})

\* one pass of the for loop of check_resources (lines 88-97), the alert
\* returning: alert_resource_hog, then smart_remediate(proc['pid'])
HandleHog(st, dr, pid) ==
    Only({[w |-> o.w,
           events |-> st.events \o <<Event("alert", pid, TRUE, "WARNING", <<>>),
                                     Event("remediate", pid, o.actions[1].success, "", o.actions)>>,
           raised |-> FALSE] : o \in {smart_remediate(st.w, dr, pid, 0, 0)}})

RECURSIVE ProcessHogs(_, _, _, _, _)
\* the for loop of check_resources from its i-th process on; st is the world,
\* the events so far and whether the loop raised. alert_fails is the position
\* whose alert raises (0: none), which ends the loop.
ProcessHogs(st, dr, hs, alert_fails, i) ==
    IF i > Len(hs) THEN st
    ELSE IF alert_fails = i
    THEN [st EXCEPT !.events = Append(@, Event("alert", hs[i], FALSE, "WARNING", <<>>)),
                    !.raised = TRUE]
    ELSE Only({ProcessHogs(next, dr, hs, alert_fails, i + 1) : next \in {HandleHog(st, dr, hs[i])}})

\* self.logger.log_incident(query, plan, results, outcome=..., notes=...)
log_incident(outcome, ok) == Event("log", 0, ok, outcome, <<>>)

\* check_resources() after the probe: lines 86-108. alert_fails and log_fails
\* choose the collaborator call that raises, if any.
CheckResources(alert_fails, log_fails) ==
    \E body \in {ProcessHogs([w |-> TheWorld, events |-> <<>>, raised |-> FALSE], dry_run,
                             HogsToProcess(hogs), alert_fails, 1)} :
    \E logs \in {hogs # <<>> /\ ~body.raised} :
        /\ pc = "in_resource"
        /\ alert_fails \in 0..Len(HogsToProcess(hogs))
        /\ log_fails => logs
        /\ procs' = body.w.procs
        /\ signals' = body.w.signals
        /\ remediation_history' = body.w.history
        /\ events' = body.events \o (IF logs THEN <<log_incident("warning", ~log_fails)>> ELSE <<>>)
        /\ IF body.raised \/ (logs /\ log_fails)
           THEN /\ pc' = OnException
                /\ raised' = TRUE
                /\ UNCHANGED last_resource_check
           ELSE /\ pc' = "sleep"
                /\ last_resource_check' = current_time
                /\ UNCHANGED raised
        /\ UNCHANGED <<running, now, current_time, last_health_check, health_check_interval,
                       resource_check_interval, hogs, iter, signalled,
                       early_signal, dry_run, rm_call>>

\* time.sleep(60): one poll period
Sleep ==
    /\ pc = "sleep"
    /\ now < MaxTime \/ ~running
    /\ now' = Min(now + 1, MaxTime)
    /\ pc' = "loop"
    /\ hogs' = <<>>
    /\ events' = <<>>
    /\ UNCHANGED <<running, current_time, last_health_check, last_resource_check,
                   health_check_interval, resource_check_interval, iter, signalled, raised, early_signal>>

\* an except clause that goes round the loop again
HandleExceptionRetrying ==
    /\ pc = "except"
    /\ pc' = "loop"
    /\ hogs' = <<>>
    /\ events' = <<>>
    /\ UNCHANGED <<running, now, current_time, last_health_check, last_resource_check,
                   health_check_interval, resource_check_interval, iter,
                   signalled, raised, early_signal>>

\* except Exception as e: print, traceback; finally: print; run() returns
HandleException ==
    /\ pc = "except"
    /\ pc' = "returned"
    /\ hogs' = <<>>
    /\ events' = <<>>
    /\ UNCHANGED <<running, now, current_time, last_health_check, last_resource_check,
                   health_check_interval, resource_check_interval, iter,
                   signalled, raised, early_signal>>

---------------------------------------------------------------------------
(* Two VectorStore instances on the same persisted files *)

\* the CLI's instance and the daemon's, each in its own process
Peers == {"cli", "daemon"}

\* the metadata dict objects an instance's callers pass to add: one object
\* per process, filled in anew for each record
PeerDictIds == {1}

\* both instances constructed, no call in progress, nothing written yet
SharedInit ==
    /\ peers = [p \in Peers |-> [st |-> Fresh([d \in DictIds |-> 0]), pc |-> "idle"]]
    /\ written_by = [index |-> "none", metadata |-> "none"]
    /\ interfered = [p \in Peers |-> FALSE]

\* the other instances caught in the middle of their save() by a write of p
Disturbed(p) ==
    [q \in Peers |-> IF q = p THEN interfered[p]
                     ELSE interfered[q] \/ peers[q].pc = "saving"]

\* load() of instance p, first half: index_path.exists() and faiss.read_index,
\* or _create_new_index()
PeerLoadIndex(p) ==
    /\ peers[p].pc = "idle"
    /\ peers' = [peers EXCEPT ![p].st = load(@, index_file, NoFile).st,
                              ![p].pc = IF index_file.exists THEN "loading" ELSE "idle"]
    /\ UNCHANGED <<index_file, metadata_file, written_by, interfered>>

\* load() of instance p, second half: metadata_path.exists() and pickle.load
PeerLoadMetadata(p) ==
    /\ peers[p].pc = "loading"
    /\ peers' = [peers EXCEPT ![p].st = load(@, FileOf(@.index), metadata_file).st,
                              ![p].pc = "idle"]
    /\ UNCHANGED <<index_file, metadata_file, written_by, interfered>>

\* add(text, metadata_dict) on instance p
PeerAdd(p, text, d) ==
    /\ peers[p].pc = "idle"
    /\ Len(peers[p].st.index) < MaxLen
    /\ Len(peers[p].st.metadata) < MaxLen
    /\ peers' = [peers EXCEPT ![p].st = add(@, text, d)]
    /\ UNCHANGED <<index_file, metadata_file, written_by, interfered>>

\* save() whose first write leaves an index file that is already there alone
PeerWriteIndexIfAbsent(p) ==
    /\ peers[p].pc = "idle"
    /\ index_file' = IF index_file.exists THEN index_file ELSE FileOf(peers[p].st.index)
    /\ written_by' = [written_by EXCEPT !.index = p]
    /\ interfered' = [Disturbed(p) EXCEPT ![p] = FALSE]
    /\ peers' = [peers EXCEPT ![p].pc = "saving"]
    /\ UNCHANGED metadata_file

\* save() of instance p, first write: faiss.write_index (line 116)
PeerWriteIndex(p) ==
    /\ peers[p].pc = "idle"
    /\ index_file' = FileOf(peers[p].st.index)
    /\ written_by' = [written_by EXCEPT !.index = p]
    /\ interfered' = [Disturbed(p) EXCEPT ![p] = FALSE]
    /\ peers' = [peers EXCEPT ![p].pc = "saving"]
    /\ UNCHANGED metadata_file

\* save() of instance p, second write: pickle.dump (lines 119-120)
PeerWriteMetadata(p) ==
    /\ peers[p].pc = "saving"
    /\ metadata_file' = FileOf(Pickled(peers[p].st.metadata, peers[p].st.dicts))
    /\ written_by' = [written_by EXCEPT !.metadata = p]
    /\ interfered' = Disturbed(p)
    /\ peers' = [peers EXCEPT ![p].pc = "idle"]
    /\ UNCHANGED index_file

---------------------------------------------------------------------------
(* RunbookEngine (engine.py) *)

\* dict.get(key, default)
get(d, key, default) == IF key \in DOMAIN d THEN d[key] ELSE default
\* the dict d with only the keys K
Restrict(d, K) == [k \in K |-> d[k]]

\* threshold of a disk_usage trigger that declares none
DefaultDiskThreshold == 90
\* threshold of a memory_usage trigger that declares none
DefaultMemoryThreshold == 85

\* usage readings and declared thresholds: below, at and above each other
Usages == {DefaultMemoryThreshold, DefaultDiskThreshold}
Filesystems == {"/", "/home"}
\* trigger types and operators a runbooks file can declare, known or not
TriggerTypes == {"disk_usage", "memory_usage", "cpu_usage"}
Operators == {">", ">=", "<"}

\* the entries of context['disk_usage']
DiskEntries == [filesystem : Filesystems, usage_percent : Usages]
DiskLists == UNION {[1..n -> DiskEntries] : n \in 0..MaxDisks}
\* the context dicts: each of the two keys present or not
Contexts ==
    {Restrict(c, K) : c \in [disk_usage : DiskLists, memory_usage : Usages],
                      K \in SUBSET {"disk_usage", "memory_usage"}}

\* the trigger dicts: every key optional
Triggers ==
    {Restrict(t, K) : t \in [type : TriggerTypes, threshold : Usages,
                             operator : Operators, filesystem : Filesystems],
                      K \in SUBSET {"type", "threshold", "operator", "filesystem"}}
\* runbooks as check_trigger reads them: enabled and trigger, each optional
RunbookPool ==
    {[trigger |-> t] : t \in Triggers}
        \cup {[enabled |-> e, trigger |-> t] : e \in BOOLEAN, t \in Triggers}
        \cup {[enabled |-> e] : e \in BOOLEAN}

\* a runbooks file that is not there
NoSource == [exists |-> FALSE, shape |-> "missing", runbooks |-> <<>>]

\* what the last engine call was and what it returned; effects is what
\* execute_runbook did to the outside, in order; source is the runbooks file
\* load_runbooks found and held the number of runbooks the engine held when
\* it was called
EngineRet(op, value) ==
    [op |-> op, value |-> value, runbook |-> <<>>, dry_run |-> FALSE,
     outcomes |-> <<>>, effects |-> <<>>, source |-> NoSource, held |-> 0]

\* the engine as constructed on a runbooks file that does not exist
EngineInit ==
    /\ runbooks = <<>>
    /\ context = <<>>
    /\ engine_ret = EngineRet("none", FALSE)

RECURSIVE DiskLoop(_, _, _, _)
\* the for loop of _check_disk_trigger over context['disk_usage'] (lines 60-69)
DiskLoop(disks, filesystem, threshold, operator) ==
    IF disks = <<>> THEN FALSE
    ELSE LET disk == Head(disks) IN
         IF disk.filesystem = filesystem
            /\ \/ operator = ">" /\ disk.usage_percent > threshold
               \/ operator = ">=" /\ disk.usage_percent >= threshold
         THEN TRUE
         ELSE DiskLoop(Tail(disks), filesystem, threshold, operator)

\* _check_disk_trigger that looks at every entry, whatever its filesystem
_check_disk_trigger_any_filesystem(trigger, ctx) ==
    IF "disk_usage" \notin DOMAIN ctx THEN FALSE
    ELSE \E i \in 1..Len(ctx.disk_usage) :
            DiskLoop(<<ctx.disk_usage[i]>>, ctx.disk_usage[i].filesystem,
                     get(trigger, "threshold", DefaultDiskThreshold),
                     get(trigger, "operator", ">"))

\* _check_disk_trigger(trigger, context)
_check_disk_trigger(trigger, ctx) ==
    IF "disk_usage" \notin DOMAIN ctx THEN FALSE
    ELSE DiskLoop(ctx.disk_usage,
                  get(trigger, "filesystem", "/"),
                  get(trigger, "threshold", DefaultDiskThreshold),
                  get(trigger, "operator", ">"))

\* _check_memory_trigger that takes '>' as inclusive
_check_memory_trigger_inclusive(trigger, ctx) ==
    IF "memory_usage" \notin DOMAIN ctx THEN FALSE
    ELSE LET threshold == get(trigger, "threshold", DefaultMemoryThreshold)
             operator  == get(trigger, "operator", ">=")
             usage     == ctx.memory_usage
         IN  \/ operator = ">=" /\ usage >= threshold
             \/ operator = ">" /\ usage >= threshold

\* _check_memory_trigger(trigger, context)
_check_memory_trigger(trigger, ctx) ==
    IF "memory_usage" \notin DOMAIN ctx THEN FALSE
    ELSE LET threshold == get(trigger, "threshold", DefaultMemoryThreshold)
             operator  == get(trigger, "operator", ">=")
             usage     == ctx.memory_usage
         IN  \/ operator = ">=" /\ usage >= threshold
             \/ operator = ">" /\ usage > threshold

\* check_trigger that does not look at enabled
check_trigger_ignoring_enabled(runbook, ctx) ==
    LET trigger      == get(runbook, "trigger", <<>>)
        trigger_type == get(trigger, "type", "None")
    IN  IF trigger_type = "disk_usage" THEN _check_disk_trigger(trigger, ctx)
        ELSE IF trigger_type = "memory_usage" THEN _check_memory_trigger(trigger, ctx)
        ELSE FALSE

\* check_trigger(runbook, context)
check_trigger(runbook, ctx) ==
    IF ~get(runbook, "enabled", TRUE) THEN FALSE
    ELSE LET trigger      == get(runbook, "trigger", <<>>)
             trigger_type == get(trigger, "type", "None")
         IN  IF trigger_type = "disk_usage" THEN _check_disk_trigger(trigger, ctx)
             ELSE IF trigger_type = "memory_usage" THEN _check_memory_trigger(trigger, ctx)
             ELSE FALSE

\* a call of check_trigger(runbook, context)
CheckTrigger(runbook) ==
    /\ engine_ret' = [EngineRet("check_trigger", check_trigger(runbook, context))
                         EXCEPT !.runbook = runbook]
    /\ UNCHANGED <<runbooks, context>>

\* the runbooks a runbooks file is drawn from: three triggers that rely on
\* defaults, each enabled (no enabled key) or disabled
LoadableTriggers ==
    {[type |-> "disk_usage", threshold |-> DefaultMemoryThreshold],
     [type |-> "memory_usage"],
     [type |-> "cpu_usage", threshold |-> DefaultMemoryThreshold]}
Loadable ==
    {[trigger |-> t] : t \in LoadableTriggers}
        \cup {[enabled |-> FALSE, trigger |-> t] : t \in LoadableTriggers}
RunbookLists == UNION {[1..n -> Loadable] : n \in 0..MaxRunbooks}
\* what yaml.safe_load makes of a runbooks file that is there: it raises
\* (malformed), returns something that is not a mapping (not_mapping),
\* a mapping without the runbooks key (no_key), with a null runbooks entry
\* (null_runbooks) or with a list of runbooks (list)
BadShapes == {"malformed", "not_mapping", "null_runbooks"}
Sources ==
    {NoSource}
        \cup {[exists |-> TRUE, shape |-> sh, runbooks |-> <<>>] :
                 sh \in BadShapes \cup {"no_key"}}
        \cup {[exists |-> TRUE, shape |-> "list", runbooks |-> l] : l \in RunbookLists}

\* load_runbooks whose except clause only prints
load_runbooks_keeping_on_error(rbs, source) ==
    IF ~source.exists THEN rbs
    ELSE IF source.shape \in BadShapes THEN rbs
    ELSE IF source.shape = "no_key" THEN <<>>
    ELSE source.runbooks

\* load_runbooks() with the file at config_path being source: self.runbooks
\* afterwards. A missing file returns at line 23. yaml.safe_load raising,
\* config.get on a non-mapping, and len([... for r in None]) after
\* self.runbooks = None all end in the except clause: self.runbooks = [].
load_runbooks(rbs, source) ==
    IF ~source.exists THEN rbs
    ELSE IF source.shape \in BadShapes THEN <<>>
    ELSE IF source.shape = "no_key" THEN <<>>
    ELSE source.runbooks

\* a call of load_runbooks()
LoadRunbooks(source) ==
    /\ runbooks' = load_runbooks(runbooks, source)
    /\ engine_ret' = [EngineRet("load_runbooks", FALSE) EXCEPT
                         !.source = source, !.held = Len(runbooks)]
    /\ UNCHANGED context

RECURSIVE MatchLoop(_, _, _)
\* the for loop of find_matching_runbooks (lines 162-164)
MatchLoop(rbs, ctx, matching) ==
    IF rbs = <<>> THEN matching
    ELSE MatchLoop(Tail(rbs), ctx,
                   IF check_trigger(Head(rbs), ctx)
                   THEN Append(matching, Head(rbs)) ELSE matching)

\* find_matching_runbooks that stops at the first match
find_matching_runbooks_first_only(rbs, ctx) ==
    LET all == MatchLoop(rbs, ctx, <<>>) IN
    IF all = <<>> THEN <<>> ELSE <<Head(all)>>

\* find_matching_runbooks(context)
find_matching_runbooks(rbs, ctx) == MatchLoop(rbs, ctx, <<>>)

\* a call of find_matching_runbooks(context)
FindMatching ==
    /\ engine_ret' = EngineRet("find_matching_runbooks",
                               find_matching_runbooks(runbooks, context))
    /\ UNCHANGED <<runbooks, context>>

\* timeout of a command action that declares none
DefaultCommandTimeout == 30

\* the action dicts of a runbook: the three kinds (a command with and
\* without a declared timeout), a kind the engine does not know, and an
\* action with no type key
ActionPool ==
    {[type |-> "alert", message |-> "disk", severity |-> "CRITICAL"],
     [type |-> "command", run |-> "cleanup"],
     [type |-> "command", run |-> "cleanup", timeout |-> 5],
     [type |-> "wait", seconds |-> 1],
     [type |-> "restart"],
     [message |-> "disk"]}
ActionLists == UNION {[1..n -> ActionPool] : n \in 0..MaxActions}
\* the runbooks execute_runbook is handed: with or without the actions key
Executable ==
    {[name |-> "rb", actions |-> l] : l \in ActionLists} \cup {[name |-> "rb"]}
\* how a spawned command ends: exit status 0, another status, or
\* subprocess.run raising (timeout, spawn failure)
CommandOutcomes == {"exit_0", "exit_1", "raised"}

\* what one action did to the outside: printed, slept, or called
\* subprocess.run with a shell string and a timeout
Did(what) == [did |-> what, run |-> "", timeout |-> 0]

\* _execute_alert(action, dry_run): the result and what was done. Both modes
\* only print.
_execute_alert(action, dry) ==
    [result |-> [success |-> TRUE, type |-> "alert"],
     effect |-> Did(IF dry THEN "print_would_alert" ELSE "print_alert")]

\* _execute_command that reports success whenever subprocess.run returns
_execute_command_ignoring_status(action, dry, outcome) ==
    IF dry
    THEN [result |-> [success |-> TRUE, type |-> "command", dry_run |-> TRUE],
          effect |-> Did("print_would_run")]
    ELSE [result |-> [success |-> (outcome # "raised"), type |-> "command"],
          effect |-> [did |-> "spawn", run |-> get(action, "run", "None"),
                      timeout |-> get(action, "timeout", DefaultCommandTimeout)]]

\* _execute_command(action, dry_run), the spawned command ending as outcome
_execute_command(action, dry, outcome) ==
    IF dry
    THEN [result |-> [success |-> TRUE, type |-> "command", dry_run |-> TRUE],
          effect |-> Did("print_would_run")]
    ELSE [result |-> [success |-> (outcome = "exit_0"), type |-> "command"],
          effect |-> [did |-> "spawn", run |-> get(action, "run", "None"),
                      timeout |-> get(action, "timeout", DefaultCommandTimeout)]]

\* _execute_wait(action, dry_run)
_execute_wait(action, dry) ==
    [result |-> [success |-> TRUE, type |-> "wait"],
     effect |-> Did(IF dry THEN "print_would_wait" ELSE "sleep")]

\* one pass of execute_runbook's loop body (lines 99-111)
ExecuteAction(action, dry, outcome) ==
    LET action_type == get(action, "type", "None") IN
    IF action_type = "alert" THEN _execute_alert(action, dry)
    ELSE IF action_type = "command" THEN _execute_command(action, dry, outcome)
    ELSE IF action_type = "wait" THEN _execute_wait(action, dry)
    ELSE [result |-> [success |-> FALSE], effect |-> Did("none")]

RECURSIVE ActionLoop(_, _, _, _, _)
\* the for loop of execute_runbook from action i on; acc holds the results
\* appended and the effects so far
ActionLoop(actions, i, dry, outcomes, acc) ==
    IF i > Len(actions) THEN acc
    ELSE LET o == ExecuteAction(actions[i], dry, outcomes[i]) IN
         ActionLoop(actions, i + 1, dry, outcomes,
                    [results |-> Append(acc.results, o.result),
                     effects |-> Append(acc.effects,
                                        [step |-> i, did |-> o.effect.did,
                                         run |-> o.effect.run,
                                         timeout |-> o.effect.timeout])])

\* execute_runbook that gives up at the first action reporting failure
execute_runbook_stopping_on_failure(runbook, ctx, dry, outcomes) ==
    LET actions == get(runbook, "actions", <<>>)
        failed  == {i \in 1..Len(actions) :
                       ~ExecuteAction(actions[i], dry, outcomes[i]).result.success}
        last    == IF failed = {} THEN Len(actions)
                   ELSE CHOOSE i \in failed : \A j \in failed : i <= j
        out     == ActionLoop(SubSeq(actions, 1, last), 1, dry, outcomes,
                              [results |-> <<>>, effects |-> <<>>])
    IN  [results |-> [runbook |-> get(runbook, "name", "unknown"), actions |-> out.results],
         effects |-> out.effects]

\* execute_runbook(runbook, context, dry_run), the commands it spawns ending
\* as outcomes says, by position
execute_runbook(runbook, ctx, dry, outcomes) ==
    LET actions == get(runbook, "actions", <<>>)
        out     == ActionLoop(actions, 1, dry, outcomes,
                              [results |-> <<>>, effects |-> <<>>])
    IN  [results |-> [runbook |-> get(runbook, "name", "unknown"), actions |-> out.results],
         effects |-> out.effects]

\* a call of execute_runbook(runbook, context, dry_run)
ExecuteRunbook(runbook, dry, outcomes) ==
    /\ \A i \in 1..MaxActions :
          outcomes[i] # "exit_0" =>
              /\ ~dry
              /\ i <= Len(get(runbook, "actions", <<>>))
              /\ get(runbook.actions[i], "type", "None") = "command"
    /\ LET o == execute_runbook(runbook, context, dry, outcomes) IN
       engine_ret' = [EngineRet("execute_runbook", o.results) EXCEPT
                         !.runbook = runbook, !.dry_run = dry,
                         !.outcomes = outcomes, !.effects = o.effects]
    /\ UNCHANGED <<runbooks, context>>

---------------------------------------------------------------------------
(* AgentPlanner, AgentExecutor, LKOAgent.ask and AlertSystem *)

\* the five probes of the executor's tool_map (executor.py:33-39)
Probes == {"disk_usage", "cpu_load", "memory_status", "process_list", "recent_errors"}

\* the tool names an LLM output or a hand-made plan can carry: two of the
\* probes and a name that is no probe
PlannedTools == {"disk_usage", "recent_errors", "rm_rf"}
ToolLists == UNION {[1..n -> PlannedTools] : n \in 0..MaxTools}
\* the allow-lists a configuration can declare (tools.allowed_tools)
AllowLists == {Probes, {"disk_usage", "memory_status"}, {"disk_usage", "rm_rf"}}

\* the keys a plan must have
PlanKeys == {"goal", "tools", "reasoning"}
\* the JSON objects an LLM can answer with: any of the three keys may be missing
Payloads ==
    {Restrict(pl, K) : pl \in [goal : {"g"}, tools : ToolLists, reasoning : {"r"}],
                       K \in SUBSET PlanKeys}
\* what llm.generate and json.loads make of a query: generate raises (fails),
\* the text is no JSON (garbage), it is JSON but no object (not_object), it is
\* an object whose tools entry cannot be iterated (bad_tools), or an object
LLMOutputs ==
    {[kind |-> k] : k \in {"fails", "garbage", "not_object", "bad_tools"}}
        \cup {[kind |-> "object", payload |-> pl] : pl \in Payloads}

\* the plan of the two except clauses of plan()
ErrorPlan(goal) == [goal |-> goal, tools |-> <<>>, reasoning |-> "e", error |-> "e"]

\* the list comprehension of line 68
FilterTools(tools, allowed) == SelectSeq(tools, LAMBDA t : t \in allowed)

\* plan() without the check of the three keys
plan_unvalidated(allowed, out) ==
    IF out.kind = "fails" THEN ErrorPlan("Planning error")
    ELSE IF out.kind = "garbage" THEN ErrorPlan("Parse error")
    ELSE IF out.kind \in {"not_object", "bad_tools"} THEN ErrorPlan("Planning error")
    ELSE IF "tools" \notin DOMAIN out.payload THEN out.payload
    ELSE [out.payload EXCEPT !.tools = FilterTools(@, allowed)]

\* plan() without the filter of line 68
plan_unfiltered(allowed, out) ==
    IF out.kind = "fails" THEN ErrorPlan("Planning error")
    ELSE IF out.kind = "garbage" THEN ErrorPlan("Parse error")
    ELSE IF out.kind \in {"not_object", "bad_tools"} THEN ErrorPlan("Planning error")
    ELSE IF ~(PlanKeys \subseteq DOMAIN out.payload) THEN ErrorPlan("Planning error")
    ELSE out.payload

\* plan(query), the LLM answering out. llm.generate raising, the ValueError of
\* line 65 and a TypeError on a value that is no object or has no iterable
\* tools reach `except Exception`; json.loads raising reaches
\* `except json.JSONDecodeError`.
plan(allowed, out) ==
    IF out.kind = "fails" THEN ErrorPlan("Planning error")
    ELSE IF out.kind = "garbage" THEN ErrorPlan("Parse error")
    ELSE IF out.kind \in {"not_object", "bad_tools"} THEN ErrorPlan("Planning error")
    ELSE IF ~(PlanKeys \subseteq DOMAIN out.payload) THEN ErrorPlan("Planning error")
    ELSE [out.payload EXCEPT !.tools = FilterTools(@, allowed)]

\* how an invoked probe ends: it returns success, it returns failure, it raises
ProbeOutcomes == {"ok", "failed", "raised"}

\* execute_tool that looks the tool up before it looks at dry_run
execute_tool_probing_in_dry_run(dry, tool_name, outcome) ==
    IF tool_name \notin Probes
    THEN [result |-> [tool |-> tool_name, success |-> FALSE, output |-> "Unknown tool"],
          probes |-> <<>>]
    ELSE IF outcome = "raised"
    THEN [result |-> [tool |-> tool_name, success |-> FALSE, output |-> "Execution error"],
          probes |-> <<tool_name>>]
    ELSE [result |-> [tool |-> tool_name, success |-> (outcome = "ok"), output |-> "probe"],
          probes |-> <<tool_name>>]

\* execute_tool(tool_name), the probe (if invoked) ending as outcome: the
\* result and the probes invoked
execute_tool(dry, tool_name, outcome) ==
    IF dry
    THEN [result |-> [tool |-> tool_name, dry_run |-> TRUE, output |-> "DRY RUN"],
          probes |-> <<>>]
    ELSE IF tool_name \notin Probes
    THEN [result |-> [tool |-> tool_name, success |-> FALSE, output |-> "Unknown tool"],
          probes |-> <<>>]
    ELSE IF outcome = "raised"
    THEN [result |-> [tool |-> tool_name, success |-> FALSE, output |-> "Execution error"],
          probes |-> <<tool_name>>]
    ELSE [result |-> [tool |-> tool_name, success |-> (outcome = "ok"), output |-> "probe"],
          probes |-> <<tool_name>>]

RECURSIVE ToolLoop(_, _, _, _, _)
\* the for loop of execute_plan from tool i on
ToolLoop(dry, tools, i, outcomes, acc) ==
    IF i > Len(tools) THEN acc
    ELSE LET o == execute_tool(dry, tools[i], outcomes[i]) IN
         ToolLoop(dry, tools, i + 1, outcomes,
                  [results |-> Append(acc.results, o.result),
                   probes |-> acc.probes \o o.probes])

\* execute_plan(plan): what it returns and the probes it invoked
execute_plan(dry, p, outcomes) ==
    LET out == ToolLoop(dry, get(p, "tools", <<>>), 1, outcomes,
                        [results |-> <<>>, probes |-> <<>>])
    IN  [value |-> [plan_goal |-> get(p, "goal", "Unknown"),
                    tools_executed |-> Len(out.results),
                    results |-> out.results],
         probes |-> out.probes]

\* what execute_plan returns, before any call
NoResults == [plan_goal |-> "", tools_executed |-> 0, results |-> <<>>]

\* what the last call was and what it did: llm is what the LLM answered, plan
\* the plan returned or handed in, executed whether execute_plan was called,
\* results what it returned, probes the probes invoked in order, outcomes how
\* the probes ended by position, logged whether an incident was logged,
\* raised whether the call raised, delivered the alert channels written
AgentRet(op) ==
    [op |-> op, llm |-> [kind |-> "none"], plan |-> <<>>, executed |-> FALSE,
     results |-> NoResults, probes |-> <<>>, outcomes |-> <<>>,
     logged |-> FALSE, raised |-> FALSE, delivered |-> {}]

\* the components as constructed from the default configuration
AgentInit ==
    /\ available_tools = Probes
    /\ executor_dry_run = FALSE
    /\ alert_enabled = TRUE
    /\ agent_ret = AgentRet("none")

\* probes end as outcomes says only where a probe is invoked
OutcomesFit(dry, tools, outcomes) ==
    \A i \in 1..MaxTools :
        outcomes[i] # "ok" => (~dry /\ i <= Len(tools) /\ tools[i] \in Probes)

\* a call of planner.plan(query)
Plan(out) ==
    /\ agent_ret' = [AgentRet("plan") EXCEPT !.llm = out, !.plan = plan(available_tools, out)]
    /\ UNCHANGED <<available_tools, executor_dry_run, alert_enabled>>

\* the plans execute_plan is handed: those of the planner, and hand-made ones
\* with any tool names or without the tools key
ExecPlans ==
    {plan(a, out) : a \in AllowLists, out \in LLMOutputs}
        \cup {[goal |-> "g", tools |-> ts, reasoning |-> "r"] : ts \in ToolLists}
        \cup {[goal |-> "g"]}

\* a call of executor.execute_plan(plan)
ExecutePlan(p, outcomes) ==
    /\ OutcomesFit(executor_dry_run, get(p, "tools", <<>>), outcomes)
    /\ LET o == execute_plan(executor_dry_run, p, outcomes) IN
       agent_ret' = [AgentRet("execute_plan") EXCEPT
                        !.plan = p, !.executed = TRUE, !.results = o.value,
                        !.probes = o.probes, !.outcomes = outcomes]
    /\ UNCHANGED <<available_tools, executor_dry_run, alert_enabled>>

\* ask(query, log_incident) from the planning phase on (lines 38-83): what
\* the call leaves behind
ask(allowed, dry, out, log, outcomes) ==
    LET p == plan(allowed, out) IN
    IF "error" \in DOMAIN p
    THEN [AgentRet("ask") EXCEPT !.llm = out, !.plan = p]
    ELSE LET o == execute_plan(dry, p, outcomes) IN
         [AgentRet("ask") EXCEPT !.llm = out, !.plan = p, !.executed = TRUE,
                                 !.results = o.value, !.probes = o.probes,
                                 !.outcomes = outcomes, !.logged = log]

\* a call of LKOAgent.ask(query, log_incident)
Ask(out, log, outcomes) ==
    /\ OutcomesFit(executor_dry_run, plan(available_tools, out).tools, outcomes)
    /\ "error" \in DOMAIN plan(available_tools, out) => ~log
    /\ agent_ret' = ask(available_tools, executor_dry_run, out, log, outcomes)
    /\ UNCHANGED <<available_tools, executor_dry_run, alert_enabled>>

\* send_alert(alert_type, message, severity): _log_alert (makedirs, open,
\* write: no handler) and then _send_desktop_notification (try/except: pass)
send_alert(enabled, log_fails, notify_fails) ==
    IF ~enabled THEN [raised |-> FALSE, delivered |-> {}]
    ELSE IF log_fails THEN [raised |-> TRUE, delivered |-> {}]
    ELSE [raised |-> FALSE,
          delivered |-> IF notify_fails THEN {"log"} ELSE {"log", "desktop"}]

\* a call of alerts.send_alert(...)
SendAlert(log_fails, notify_fails) ==
    /\ ~alert_enabled => (~log_fails /\ ~notify_fails)
    /\ log_fails => ~notify_fails
    /\ LET o == send_alert(alert_enabled, log_fails, notify_fails) IN
       agent_ret' = [AgentRet("send_alert") EXCEPT
                        !.raised = o.raised, !.delivered = o.delivered]
    /\ UNCHANGED <<available_tools, executor_dry_run, alert_enabled>>

---------------------------------------------------------------------------
(* The specifications *)

\* the daemon as constructed by AgentDaemon.__init__ and not started
DaemonIdle ==
    /\ DaemonInit
    /\ now = 0
    /\ health_check_interval = MaxInterval
    /\ resource_check_interval = 1

\* SpecStore: one VectorStore driven through its public operations
InitStore ==
    /\ StoreInit
    /\ dry_run = TRUE
    /\ RMInit
    /\ DaemonIdle
    /\ SharedInit
    /\ EngineInit
    /\ AgentInit

NextStore ==
    \/ \E text \in Texts, d \in DictIds : Add(text, d) /\ UNCHANGED <<rmVars, daemonVars, sharedVars, engineVars, agentVars>>
    \/ AddEmbedderRaises /\ UNCHANGED <<rmVars, daemonVars, sharedVars, engineVars, agentVars>>
    \/ \E pairs \in Batches : AddBatch(pairs) /\ UNCHANGED <<rmVars, daemonVars, sharedVars, engineVars, agentVars>>
    \/ Save /\ UNCHANGED <<rmVars, daemonVars, sharedVars, engineVars, agentVars>>
    \/ Load /\ UNCHANGED <<rmVars, daemonVars, sharedVars, engineVars, agentVars>>
    \/ Construct /\ UNCHANGED <<rmVars, daemonVars, sharedVars, engineVars, agentVars>>
    \/ \E query \in Texts, k \in Ks : Search(query, k) /\ UNCHANGED <<rmVars, daemonVars, sharedVars, engineVars, agentVars>>

SpecStore == InitStore /\ [][NextStore]_vars

\* SpecPersist: the same store on a file system where artifacts can be lost
\* or become unreadable between the store's calls
NextPersist ==
    \/ NextStore
    \/ \E which \in {"index", "metadata"} :
          ArtifactLost(which) /\ UNCHANGED <<rmVars, daemonVars, sharedVars, engineVars, agentVars>>
    \/ \E which \in {"index", "metadata"} :
          ArtifactCorrupted(which) /\ UNCHANGED <<rmVars, daemonVars, sharedVars, engineVars, agentVars>>

SpecPersist == InitStore /\ [][NextPersist]_vars

\* SpecShared: two instances, each in its own process, on the same two files;
\* the steps of their load() and save() calls interleave freely
NextShared ==
    \/ \E p \in Peers : PeerLoadIndex(p)
          /\ UNCHANGED <<index, metadata, dicts, store_ret, rmVars, daemonVars, engineVars,
                       agentVars>>
    \/ \E p \in Peers : PeerLoadMetadata(p)
          /\ UNCHANGED <<index, metadata, dicts, store_ret, rmVars, daemonVars, engineVars,
                       agentVars>>
    \/ \E p \in Peers, text \in Texts, d \in PeerDictIds : PeerAdd(p, text, d)
          /\ UNCHANGED <<index, metadata, dicts, store_ret, rmVars, daemonVars, engineVars,
                       agentVars>>
    \/ \E p \in Peers : PeerWriteIndex(p)
          /\ UNCHANGED <<index, metadata, dicts, store_ret, rmVars, daemonVars, engineVars,
                       agentVars>>
    \/ \E p \in Peers : PeerWriteMetadata(p)
          /\ UNCHANGED <<index, metadata, dicts, store_ret, rmVars, daemonVars, engineVars,
                       agentVars>>

SpecShared == InitStore /\ [][NextShared]_vars

\* SpecEngine: one RunbookEngine handed runbooks by its caller, under any
\* observation context
InitEngine ==
    /\ StoreInit
    /\ dry_run = TRUE
    /\ RMInit
    /\ DaemonIdle
    /\ SharedInit
    /\ AgentInit
    /\ runbooks = <<>>
    /\ context \in Contexts
    /\ engine_ret = EngineRet("none", FALSE)

NextEngine ==
    \/ \E runbook \in RunbookPool :
          CheckTrigger(runbook) /\ UNCHANGED <<storeVars, rmVars, daemonVars, sharedVars, agentVars>>

SpecEngine == InitEngine /\ [][NextEngine]_vars

\* SpecExecute: one RunbookEngine executing the runbooks it is handed, in
\* either mode. execute_runbook never reads its context argument; the
\* contexts here are those with no disk entries.
InitExecute ==
    /\ InitEngine
    /\ "disk_usage" \notin DOMAIN context

NextExecute ==
    \E runbook \in Executable, dry \in BOOLEAN,
       outcomes \in [1..MaxActions -> CommandOutcomes] :
          ExecuteRunbook(runbook, dry, outcomes)
             /\ UNCHANGED <<storeVars, rmVars, daemonVars, sharedVars, agentVars>>

SpecExecute == InitExecute /\ [][NextExecute]_vars

\* SpecRunbooks: one RunbookEngine whose runbooks file is rewritten and
\* reloaded, asked for the runbooks matching the context
NextRunbooks ==
    \/ \E source \in Sources :
          LoadRunbooks(source) /\ UNCHANGED <<storeVars, rmVars, daemonVars, sharedVars, agentVars>>
    \/ FindMatching /\ UNCHANGED <<storeVars, rmVars, daemonVars, sharedVars, agentVars>>

SpecRunbooks == InitEngine /\ [][NextRunbooks]_vars

\* SpecAgent: the planner, the executor, the CLI's ask and the alert system
\* called directly, under any of the configurations
InitAgent ==
    /\ StoreInit
    /\ dry_run = TRUE
    /\ RMInit
    /\ DaemonIdle
    /\ SharedInit
    /\ EngineInit
    /\ available_tools \in AllowLists
    /\ executor_dry_run \in BOOLEAN
    /\ alert_enabled \in BOOLEAN
    /\ agent_ret = AgentRet("none")

NextAgent ==
    \/ \E out \in LLMOutputs :
          Plan(out) /\ UNCHANGED <<storeVars, rmVars, daemonVars, sharedVars, engineVars>>
    \/ \E p \in ExecPlans, outcomes \in [1..MaxTools -> ProbeOutcomes] :
          ExecutePlan(p, outcomes)
             /\ UNCHANGED <<storeVars, rmVars, daemonVars, sharedVars, engineVars>>
    \/ \E out \in LLMOutputs, log \in BOOLEAN, outcomes \in [1..MaxTools -> ProbeOutcomes] :
          Ask(out, log, outcomes)
             /\ UNCHANGED <<storeVars, rmVars, daemonVars, sharedVars, engineVars>>
    \/ \E log_fails \in BOOLEAN, notify_fails \in BOOLEAN :
          SendAlert(log_fails, notify_fails)
             /\ UNCHANGED <<storeVars, rmVars, daemonVars, sharedVars, engineVars>>

SpecAgent == InitAgent /\ [][NextAgent]_vars

\* SpecRM: one ResourceManager, in either execution mode, called directly
InitRM ==
    /\ StoreInit
    /\ dry_run \in BOOLEAN
    /\ RMInit
    /\ DaemonIdle
    /\ SharedInit
    /\ EngineInit
    /\ AgentInit

NextRM ==
    \/ \E pid \in Targets, new_nice \in NiceValues, exit_at \in ExitPoints :
          ReniceCall(pid, new_nice, exit_at) /\ UNCHANGED <<storeVars, daemonVars, sharedVars, engineVars, agentVars>>
    \/ \E pid \in Targets, exits \in BOOLEAN, exit_at \in ExitPoints :
          GracefulStopCall(pid, exits, exit_at) /\ UNCHANGED <<storeVars, daemonVars, sharedVars, engineVars, agentVars>>
    \/ \E pid \in Targets, exit_at \in ExitPoints :
          ForceKillCall(pid, exit_at) /\ UNCHANGED <<storeVars, daemonVars, sharedVars, engineVars, agentVars>>
    \/ \E pid \in Targets, tier \in 1..3, exit_at \in ExitPoints :
          SmartRemediateCall(pid, tier, exit_at) /\ UNCHANGED <<storeVars, daemonVars, sharedVars, engineVars, agentVars>>
    \/ \E pid \in Targets : ProcExit(pid) /\ UNCHANGED <<storeVars, daemonVars, sharedVars, engineVars, agentVars>>

SpecRM == InitRM /\ [][NextRM]_vars

\* Spec: the daemon. __init__ builds ResourceManager(dry_run=False) and reads
\* the two intervals from the configuration; the clock reads anything from 0 on.
Init ==
    /\ StoreInit
    /\ dry_run = FALSE
    /\ RMInit
    /\ DaemonInit
    /\ now \in 0..MaxStart
    /\ health_check_interval \in 1..MaxInterval
    /\ resource_check_interval \in 1..MaxInterval
    /\ SharedInit
    /\ EngineInit
    /\ AgentInit

\* the steps of the main thread in run()
DaemonStep ==
    \/ Run /\ UNCHANGED <<storeVars, rmVars, sharedVars, engineVars, agentVars>>
    \/ LoopEnter /\ UNCHANGED <<storeVars, rmVars, sharedVars, engineVars, agentVars>>
    \/ LoopExit /\ UNCHANGED <<storeVars, rmVars, sharedVars, engineVars, agentVars>>
    \/ HealthDue /\ UNCHANGED <<storeVars, rmVars, sharedVars, engineVars, agentVars>>
    \/ HealthNotDue /\ UNCHANGED <<storeVars, rmVars, sharedVars, engineVars, agentVars>>
    \/ \E dur \in 0..1 : RunHealthCheck(dur) /\ UNCHANGED <<storeVars, rmVars, sharedVars, engineVars, agentVars>>
    \/ RunHealthCheckRaises /\ UNCHANGED <<storeVars, rmVars, sharedVars, engineVars, agentVars>>
    \/ \E k \in 0..NumPids : ResourceDue(k) /\ UNCHANGED <<storeVars, rmVars, sharedVars, engineVars, agentVars>>
    \/ ResourceNotDue /\ UNCHANGED <<storeVars, rmVars, sharedVars, engineVars, agentVars>>
    \/ \E alert_fails \in 0..HogLimit, log_fails \in BOOLEAN :
          CheckResources(alert_fails, log_fails) /\ UNCHANGED <<storeVars, sharedVars, engineVars, agentVars>>
    \/ Sleep /\ UNCHANGED <<storeVars, rmVars, sharedVars, engineVars, agentVars>>
    \/ HandleException /\ UNCHANGED <<storeVars, rmVars, sharedVars, engineVars, agentVars>>

Next ==
    \/ DaemonStep
    \/ HandleShutdown /\ UNCHANGED <<storeVars, rmVars, sharedVars, engineVars, agentVars>>
    \/ \E pid \in Pids : HogExits(pid) /\ UNCHANGED <<storeVars, daemonVars, sharedVars, engineVars, agentVars>>

Spec == Init /\ [][Next]_vars

\* the main thread keeps running: every check and the sleep terminate
FairSpec == Spec /\ WF_vars(DaemonStep)

---------------------------------------------------------------------------
(* The claims *)

\* C1: in every state reachable by add, add_batch, save and load, the number
\* of stored embeddings (index.ntotal) equals the number of metadata entries.
\* The code breaks it: load() with no index file empties the index and keeps
\* self.metadata.
C1_LengthsAgree == Len(index) = Len(metadata)

\* a step that is a call on the manager (ProcExit is the host's, not a call)
ManagerCalled == rm_call'.op # "none"

\* C2: under dry_run, no renice_process, graceful_stop, force_kill or
\* smart_remediate call changes a process (niceness, running), sends a signal
\* or changes remediation_history.
\* (A process that ends by itself while the call is in progress is the host's
\* change, not the manager's.)
C2_DryRunChangesNothing ==
    [][(dry_run /\ ManagerCalled) =>
          ((\A p \in Pids : (procs'[p] = procs[p]) \/
                             (p = rm_call'.pid /\ rm_call'.exit_at # 0 /\ procs'[p] = Gone))
           /\ signals' = signals
           /\ remediation_history' = remediation_history)]_vars

\* C2 witness: a dry-run smart_remediate previewed all three tiers as
\* successes on a process that is still running at its old niceness.
C2_Witness ==
    /\ dry_run
    /\ rm_call.op = "smart_remediate"
    /\ Len(rm_call.results) = 3
    /\ \A i \in 1..3 : rm_call.results[i].success /\ rm_call.results[i].dry_run
    /\ procs[rm_call.pid].alive
    /\ procs[rm_call.pid].nice = 0
    /\ signals = {}
    /\ remediation_history = <<>>

\* the remediate entries of events
Remediations == {i \in 1..Len(events) : events[i].kind = "remediate"}

C4_CooperativeShutdown ==
    /\ [](signalled => ~running)
    /\ [][(running /\ ~running') =>
             UNCHANGED <<pc, now, current_time, last_health_check, last_resource_check,
                         hogs, events, iter, raised, rmVars>>]_vars
    /\ [][(signalled /\ pc' = "returned" /\ pc # "returned") => pc \in {"loop", "except"}]_vars
    /\ [][signalled => ~(pc = "loop" /\ pc' = "health_test")]_vars
    /\ (signalled ~> (pc = "returned"))

\* C4 witness: the signal was handled while check_resources was in flight.
C4_Witness == signalled /\ ~running /\ pc = "in_resource" /\ hogs # <<>>

\* the iteration has made its health test / its resource test
HealthDecided == pc \in {"in_health", "resource_test", "in_resource", "sleep", "except"}
ResourceDecided == pc \in {"in_resource", "sleep"} \/ (pc = "except" /\ ~iter.health_raised)

\* C5 as stated: in every iteration, once its body is over (at the sleep, or
\* in the except clause), each check has run iff it was due at the
\* iteration's start, and a check that ran has set its timestamp.
C5_AsStated ==
    (pc \in {"sleep", "except"}) =>
        /\ iter.ran_health <=> (current_time - iter.lh0 >= health_check_interval)
        /\ iter.ran_resource <=> (current_time - iter.lr0 >= resource_check_interval)
        /\ iter.ran_health => last_health_check = current_time
        /\ iter.ran_resource => last_resource_check = current_time

\* C5 amended: the health check is started iff it is due, and on returning
\* sets last_health_check to the iteration's current_time; the resource
\* check likewise in every iteration whose health check did not raise (one
\* that raised ends the iteration before the resource test); and two
\* consecutive starts of one check are at least its interval apart.
C5_ChecksRunIffDue ==
    /\ [](HealthDecided =>
            (iter.ran_health <=> (current_time - iter.lh0 >= health_check_interval)))
    /\ [](ResourceDecided =>
            (iter.ran_resource <=> (current_time - iter.lr0 >= resource_check_interval)))
    /\ []((pc = "except" /\ iter.health_raised) => ~iter.ran_resource)
    /\ []((pc \in {"resource_test", "in_resource", "sleep"}) =>
            last_health_check = IF iter.ran_health THEN current_time ELSE iter.lh0)
    /\ []((pc = "sleep") =>
            last_resource_check = IF iter.ran_resource THEN current_time ELSE iter.lr0)
    /\ [][(pc = "health_test" /\ pc' = "in_health" /\ iter.had_health) =>
             current_time - iter.prev_health >= health_check_interval]_vars
    /\ [][(pc = "resource_test" /\ pc' = "in_resource" /\ iter.had_resource) =>
             current_time - iter.prev_resource >= resource_check_interval]_vars

\* C5 witness: a later iteration in which the resource check ran a second
\* time while the health check was not due.
C5_Witness ==
    /\ pc = "sleep"
    /\ iter.count = 2
    /\ iter.ran_resource
    /\ ~iter.ran_health
    /\ iter.had_health
    /\ current_time - iter.lr0 >= resource_check_interval

\* C6 as stated: the first iteration runs both checks, whatever the intervals.
C6_AsStated ==
    (iter.count = 1 /\ pc \in {"sleep", "except"}) => (iter.ran_health /\ iter.ran_resource)

\* C6 amended: with both timestamps starting at 0, the first iteration starts
\* the health check iff the clock reads at least health_check_interval, and,
\* unless the health check raised, the resource check iff the clock reads at
\* least resource_check_interval; so both run when the clock reads at least
\* both intervals and the health check returns.
C6_FirstIteration ==
    /\ (iter.count = 1 /\ HealthDecided) =>
          (iter.ran_health <=> current_time >= health_check_interval)
    /\ (iter.count = 1 /\ ResourceDecided) =>
          (iter.ran_resource <=> current_time >= resource_check_interval)
    /\ (iter.count = 1 /\ pc = "sleep" /\ current_time >= health_check_interval
            /\ current_time >= resource_check_interval) =>
          (iter.ran_health /\ iter.ran_resource)

\* C6 witness: the first iteration ran both checks.
C6_Witness ==
    iter.count = 1 /\ pc = "sleep" /\ iter.ran_health /\ iter.ran_resource

\* C7: whenever run() has returned, the running flag is false. The code
\* breaks it: the except path returns with self.running still true.
C7_ReturnedMeansStopped == (pc = "returned") => ~running

\* C8: an exception from run_health_check or check_resources ends the loop:
\* control is in the except clause or run() has returned, no check is started
\* afterwards, and run() does return.
C8_ExceptionIsFatal ==
    /\ [](raised => pc \in {"except", "returned"})
    /\ [][raised => ~(pc' \in {"in_health", "in_resource"} /\ pc' # pc)]_vars
    /\ (raised ~> (pc = "returned"))

\* C8 witness: check_resources raised and run() returned, the daemon never
\* having been signalled.
C8_Witness == raised /\ pc = "returned" /\ iter.ran_resource /\ running

\* check_resources has just returned normally
ResourceCheckDone == pc = "sleep" /\ iter.ran_resource

\* the pids events has an entry of this kind for
PidsOf(kind) == {events[i].pid : i \in {j \in 1..Len(events) : events[j].kind = kind}}

\* the log entries of events
Logs == {i \in 1..Len(events) : events[i].kind = "log"}

\* C9 as stated: every process the probe returned is alerted and remediated.
C9_AsStated ==
    ResourceCheckDone =>
        /\ \A i \in 1..Len(hogs) : hogs[i] \in PidsOf("alert") /\ hogs[i] \in PidsOf("remediate")
        /\ hogs # <<>> => \E i \in Logs : events[i].tag = "warning"
        /\ hogs = <<>> => events = <<>>

\* C9 amended: check_resources alerts and remediates exactly the first three
\* processes the probe returned, each once; it logs one incident record for
\* the whole check, with outcome warning, iff some process is offending,
\* whether or not a remediation succeeded; with no offender it does nothing.
C9_FirstThreeHogs ==
    ResourceCheckDone =>
        LET n == IF Len(hogs) <= 3 THEN Len(hogs) ELSE 3 IN
        /\ PidsOf("alert") = {hogs[i] : i \in 1..n}
        /\ PidsOf("remediate") = {hogs[i] : i \in 1..n}
        /\ Cardinality({i \in 1..Len(events) : events[i].kind = "alert"}) = n
        /\ Cardinality(Remediations) = n
        /\ Cardinality(Logs) = (IF n = 0 THEN 0 ELSE 1)
        /\ \A i \in Logs : events[i].tag = "warning" /\ events[i].ok
        /\ hogs = <<>> => events = <<>>

\* C9 witness: four processes were offending, three were handled, a
\* remediation failed, and the incident was logged.
C9_Witness ==
    /\ ResourceCheckDone
    /\ Len(hogs) = 4
    /\ Cardinality(Remediations) = 3
    /\ \E i \in Remediations : ~events[i].ok
    /\ Logs # {}

\* C10 as stated: for every high-usage process the vector store is searched,
\* then the trigger engine consulted, then the escalator invoked, and finally
\* an incident record appended.
C10_AsStated ==
    (ResourceCheckDone /\ hogs # <<>>) =>
        \A h \in 1..Len(hogs) :
            \E a, b, c, d \in 1..Len(events) :
                /\ a < b /\ b < c /\ c < d
                /\ events[a].kind = "search"
                /\ events[b].kind = "trigger"
                /\ events[c].kind = "remediate" /\ events[c].pid = hogs[h]
                /\ events[d].kind = "log"

\* C10 amended: check_resources searches no vector store and consults no
\* trigger engine. For each handled process, in probe order, it emits the
\* alert and then invokes the escalator; after the last one it appends one
\* incident record.
C10_AlertRemediateLog ==
    ResourceCheckDone =>
        LET n == (Len(events) - 1) \div 2 IN
        /\ \A i \in 1..Len(events) : events[i].kind \in {"alert", "remediate", "log"}
        /\ hogs # <<>> =>
              /\ Len(events) = 2 * n + 1
              /\ events[Len(events)].kind = "log"
              /\ \A h \in 1..n :
                    /\ events[2 * h - 1].kind = "alert" /\ events[2 * h - 1].pid = hogs[h]
                    /\ events[2 * h].kind = "remediate" /\ events[2 * h].pid = hogs[h]

\* C10 witness: two processes were handled, in probe order, then the log.
C10_Witness ==
    /\ ResourceCheckDone
    /\ Len(events) = 5
    /\ events[1].kind = "alert" /\ events[2].kind = "remediate"
    /\ events[3].kind = "alert" /\ events[4].kind = "remediate"
    /\ events[1].pid = hogs[1] /\ events[3].pid = hogs[2]
    /\ events[5].kind = "log"

\* the result of the last tier the call ran
LastResult(c) == c.results[Len(c.results)]

\* C11: no call on the manager raises because the process is missing or may
\* not be touched. Every result is a dict with an action name, a success flag
\* and a message; it reports failure when the process did not exist at the
\* call, when it ended inside the tier before the tier's action, and (live)
\* when the agent is denied access to it.
C11_TiersNeverRaise ==
    [][ManagerCalled =>
        LET c == rm_call' IN
        /\ \A i \in 1..Len(c.results) :
              /\ c.results[i].action \in {Tiers[t] : t \in 1..3}
              /\ c.results[i].message # ""
              /\ c.results[i].success \in BOOLEAN
        /\ ~procs[c.pid].alive => \A i \in 1..Len(c.results) : ~c.results[i].success
        /\ c.exit_at # 0 => ~LastResult(c).success
        /\ (~dry_run /\ procs[c.pid].alive /\ procs[c.pid].denied)
              => \A i \in 1..Len(c.results) : ~c.results[i].success]_vars

\* C11 witness: a live force_kill whose process ended after proc.name() and
\* before proc.kill() returned the "already gone" failure.
C11_Witness ==
    /\ ~dry_run
    /\ rm_call.op = "force_kill"
    /\ rm_call.exit_at = 3
    /\ ~rm_call.results[1].success
    /\ rm_call.results[1].message = "already gone"
    /\ ~procs[rm_call.pid].alive
    /\ <<rm_call.pid, "SIGKILL">> \notin signals

\* a renice_process call that repeats the call before it (same pid, same
\* target) on a process that is running throughout
SecondRenice ==
    /\ rm_call'.op = "renice_process"
    /\ rm_call'.again
    /\ procs[rm_call'.pid].alive
    /\ procs'[rm_call'.pid].alive

\* C12 as stated: the second of two renice_process calls in a row on the same
\* live process with the same target reports failure and changes neither the
\* niceness nor remediation_history, in every execution mode.
C12_AsStated ==
    [][SecondRenice =>
        /\ ~rm_call'.results[1].success
        /\ procs' = procs
        /\ remediation_history' = remediation_history]_vars

\* C12, amended: the second call changes neither the niceness nor
\* remediation_history in any mode; in live mode it reports failure; under
\* dry_run it returns what the first call returned (the preview again, a
\* success, when the niceness is below the target).
C12_SecondReniceNoChange ==
    [][SecondRenice =>
        /\ procs' = procs
        /\ remediation_history' = remediation_history
        /\ ~dry_run => ~rm_call'.results[1].success
        /\ dry_run => rm_call'.results = rm_call.results]_vars

\* C12 witness: live mode, the first call reniced the process to the target
\* and the second found it already there.
C12_Witness ==
    /\ ~dry_run
    /\ rm_call.op = "renice_process"
    /\ rm_call.again
    /\ ~rm_call.results[1].success
    /\ rm_call.results[1].message = "already at nice"
    /\ procs[rm_call.pid].alive
    /\ procs[rm_call.pid].nice = rm_call.arg
    /\ \E i \in 1..Len(remediation_history) :
          /\ remediation_history[i].action = "renice"
          /\ remediation_history[i].pid = rm_call.pid
          /\ remediation_history[i].new_nice = rm_call.arg

\* C13: renice_process with target t on a process that exists throughout and
\* that the agent may change: current niceness >= t gives failure and no
\* change; otherwise success, and in live mode the niceness becomes t with
\* old and new values in the result (under dry_run it stays). No
\* renice_process call lowers the niceness of any running process.
C13_ReniceOnlyRaisesNiceness ==
    [][rm_call'.op = "renice_process" =>
        LET pid == rm_call'.pid
            t == rm_call'.arg
            r == rm_call'.results[1]
        IN /\ \A p \in Pids : procs'[p].alive => procs'[p].nice >= procs[p].nice
           /\ (procs[pid].alive /\ procs'[pid].alive /\ ~procs[pid].denied) =>
                 IF procs[pid].nice >= t
                 THEN ~r.success /\ procs'[pid].nice = procs[pid].nice
                 ELSE /\ r.success
                      /\ dry_run => procs'[pid].nice = procs[pid].nice
                      /\ ~dry_run => /\ procs'[pid].nice = t
                                     /\ r.old_nice = procs[pid].nice
                                     /\ r.new_nice = t]_vars

\* C13 witness: a live renice to a target other than the default took a
\* process from niceness 0 to 10.
C13_Witness ==
    /\ ~dry_run
    /\ rm_call.op = "renice_process"
    /\ rm_call.arg = 10
    /\ rm_call.results[1].success
    /\ rm_call.results[1].old_nice = 0
    /\ rm_call.results[1].new_nice = 10
    /\ procs[rm_call.pid].nice = 10

\* C14: a live force_kill reports success iff the process does not exist
\* after the call (so also when it was already gone before the signal).
\* The code breaks it: psutil.NoSuchProcess is answered with success False.
C14_SuccessIffGone ==
    (rm_call.op = "force_kill" /\ ~dry_run) =>
        (rm_call.results[1].success <=> ~procs[rm_call.pid].alive)

\* C15: a live graceful_stop sends SIGTERM to a process that exists and may
\* be signalled, and reports success iff the process then ends within
\* wait_seconds; a process still running at the end of the window gives a
\* failure, recorded in remediation_history, and the tier sends no SIGKILL.
C15_GracefulStopOnlyTerminates ==
    [][(rm_call'.op = "graceful_stop" /\ ~dry_run) =>
        LET pid == rm_call'.pid
            r == rm_call'.results[1]
            sent == procs[pid].alive /\ ~procs[pid].denied /\ rm_call'.exit_at = 0
        IN /\ sent <=> r.timestamp
           /\ sent => <<pid, "SIGTERM">> \in signals'
           /\ signals' \ signals \subseteq {<<pid, "SIGTERM">>}
           /\ r.success <=> (sent /\ ~procs'[pid].alive)
           /\ (sent /\ procs'[pid].alive) =>
                 /\ ~r.success
                 /\ remediation_history' = Append(remediation_history, r)
                 /\ procs' = procs]_vars

\* C15 witness: SIGTERM was sent, the process outlived the window, the tier
\* reported failure and no SIGKILL was sent.
C15_Witness ==
    /\ ~dry_run
    /\ rm_call.op = "graceful_stop"
    /\ ~rm_call.results[1].success
    /\ rm_call.results[1].message = "did not stop"
    /\ procs[rm_call.pid].alive
    /\ <<rm_call.pid, "SIGTERM">> \in signals
    /\ <<rm_call.pid, "SIGKILL">> \notin signals

\* C16: under dry_run smart_remediate returns exactly three results, for
\* renice, graceful_stop and force_kill in this order, whatever each tier
\* reports; in every mode the first result is the renice tier's and the
\* results follow the tier order without a gap.
C16_TierOrder ==
    [][rm_call'.op = "smart_remediate" =>
        LET rs == rm_call'.results IN
        /\ Len(rs) \in 1..3
        /\ \A i \in 1..Len(rs) : rs[i].action = Tiers[i]
        /\ dry_run => Len(rs) = 3]_vars

\* C16 witness: a dry run on a process already at the target niceness: the
\* renice tier failed and the two later tiers were still previewed.
C16_Witness ==
    /\ dry_run
    /\ rm_call.op = "smart_remediate"
    /\ Len(rm_call.results) = 3
    /\ ~rm_call.results[1].success
    /\ rm_call.results[1].message = "already at nice"
    /\ rm_call.results[2].success /\ rm_call.results[2].action = "graceful_stop"
    /\ rm_call.results[3].success /\ rm_call.results[3].action = "force_kill"


\* C17: add returns the number of records the store held before the call
\* (so ids are 0, 1, 2, ... in insertion order) and count() after the call is
\* the returned id plus one; a text already stored is added like any other.
\* The code breaks it after load() has emptied the index and kept
\* self.metadata (C1): add returns len(self.metadata) - 1.
C17_AddReturnsPreviousCount ==
    [][store_ret'.op = "add" =>
        (store_ret'.value = count /\ count' = store_ret'.value + 1)]_vars

FracLess(x, y) == x[1] * y[2] < y[1] * x[2]

SearchAfterAdd ==
    /\ store_ret.op = "search"
    /\ store_ret.dict # 0
    /\ store_ret.query = store_ret.text
    /\ store_ret.k = 1

Contents(md, ds) == [i \in 1..Len(md) |-> Content(md[i], ds)]

\* what search(query, k) returns on an instance, metadata read by content
SearchContents(idx, md, ds, query, k) ==
    LET r == search(idx, md, query, k).results IN
    [i \in 1..Len(r) |-> [meta |-> Content(r[i].meta, ds), similarity |-> r[i].similarity]]

\* C21: a fresh VectorStore constructed on the same paths right after save()
\* has the same count(), the same metadata sequence in the same order and
\* the same search results for every query as the store that saved.
C21_SaveThenConstruct ==
    [][(store_ret.op = "save" /\ store_ret'.op = "construct") =>
        /\ count' = count
        /\ Contents(metadata', dicts') = Contents(metadata, dicts)
        /\ \A query \in Texts, k \in Ks :
              SearchContents(index', metadata', dicts', query, k)
                 = SearchContents(index, metadata, dicts, query, k)]_vars

\* C21 witness: a constructed store holding two records, read back from the
\* two artifacts a save() wrote.
C21_Witness ==
    /\ store_ret.op = "construct"
    /\ count = 2
    /\ Len(metadata) = 2
    /\ index_file = FileOf(index)
    /\ metadata_file = FileOf(metadata)
    /\ metadata[1] # metadata[2]

\* C22: after load() or construction with the index file or the metadata
\* file missing, the store is empty (count() 0, no metadata entries, search
\* returns nothing) and nothing was raised. The code breaks it: load() with
\* no index file keeps self.metadata, and with an index file but no metadata
\* file it keeps the loaded index.
C22_MissingArtifactMeansEmpty ==
    (store_ret.op \in {"load", "construct", "load_raised", "construct_raised"}
        /\ (~index_file.exists \/ ~metadata_file.exists)) =>
        /\ store_ret.op \in {"load", "construct"}
        /\ count = 0
        /\ metadata = <<>>
        /\ \A query \in Texts, k \in Ks : search(index, metadata, query, k).results = <<>>

\* C23: constructing or loading the store with a corrupt or unreadable
\* artifact does not raise; the store starts empty. The code breaks it:
\* load() has no exception handler.
C23_CorruptArtifactMeansEmpty ==
    /\ store_ret.op \notin {"load_raised", "construct_raised"}
    /\ (store_ret.op \in {"load", "construct"}
           /\ (index_file.corrupt \/ metadata_file.corrupt)) =>
          (count = 0 /\ metadata = <<>>)

RECURSIVE AddEach(_, _)
\* add(texts[i], metadata_list[i]) for i in increasing order
AddEach(st, pairs) ==
    IF pairs = <<>> THEN st
    ELSE AddEach(add(st, Head(pairs)[1], Head(pairs)[2]), Tail(pairs))

\* C24: add_batch on equally long lists leaves the store (embeddings,
\* metadata list, what each metadata dict reads) as the adds of its pairs, one
\* by one in order, would have left it.
C24_BatchIsRepeatedAdd ==
    [][store_ret'.op = "add_batch" =>
        [index |-> index', metadata |-> metadata', dicts |-> dicts']
           = AddEach(Store, store_ret'.pairs)]_vars

\* C24 witness: a batch of two different texts with two different dicts.
C24_Witness ==
    /\ store_ret.op = "add_batch"
    /\ Len(store_ret.pairs) = 2
    /\ store_ret.pairs[1][1] # store_ret.pairs[2][1]
    /\ store_ret.pairs[1][2] # store_ret.pairs[2][2]
    /\ count = 2
    /\ metadata = <<RefEntry(store_ret.pairs[1][2]), RefEntry(store_ret.pairs[2][2])>>


\* C25 as stated: whenever no save() is in progress, the embeddings file and
\* the metadata file were last written by the same instance. Two save() calls
\* whose writes interleave break it.
C25_AsStated ==
    (\A p \in Peers : peers[p].pc # "saving") =>
        written_by.index = written_by.metadata

\* C25, amended: a save() during which no other instance wrote either file
\* leaves, when it returns, both artifacts equal to the saving instance's
\* complete in-memory state, both last written by it.
C25_UndisturbedSaveWins ==
    [][\A p \in Peers :
          (peers[p].pc = "saving" /\ peers'[p].pc = "idle" /\ ~interfered[p]) =>
              /\ index_file' = FileOf(peers[p].st.index)
              /\ metadata_file' = FileOf(Pickled(peers[p].st.metadata, peers[p].st.dicts))
              /\ written_by' = [index |-> p, metadata |-> p]]_vars

\* C25 witness: the daemon's undisturbed save() has replaced what the CLI's
\* instance, holding something else, had saved before.
C25_Witness ==
    /\ \A p \in Peers : peers[p].pc = "idle"
    /\ written_by = [index |-> "daemon", metadata |-> "daemon"]
    /\ ~interfered["daemon"]
    /\ Len(index_file.data) = 2
    /\ index_file = FileOf(peers["daemon"].st.index)
    /\ metadata_file = FileOf(Pickled(peers["daemon"].st.metadata, peers["daemon"].st.dicts))
    /\ Len(peers["cli"].st.index) = 1
    /\ peers["cli"].st.metadata # <<>>


\* the operator/threshold test as the runbook format states it
Fires(operator, usage, threshold) ==
    \/ operator = ">" /\ usage > threshold
    \/ operator = ">=" /\ usage >= threshold

\* the trigger of the runbook last checked
CheckedTrigger == get(engine_ret.runbook, "trigger", <<>>)
\* check_trigger was called on an enabled runbook of the given trigger type
Checked(type) ==
    /\ engine_ret.op = "check_trigger"
    /\ get(engine_ret.runbook, "enabled", TRUE)
    /\ get(CheckedTrigger, "type", "None") = type
\* the usages of the context's disk entries on the checked trigger's filesystem
MatchingUsages ==
    {context.disk_usage[i].usage_percent : i \in
        {j \in 1..Len(context.disk_usage) :
            context.disk_usage[j].filesystem = get(CheckedTrigger, "filesystem", "/")}}

\* C26: with an explicit threshold T and operator, a memory_usage trigger and
\* a disk_usage trigger whose filesystem has an entry of usage u fire iff
\* (operator is '>' and u > T) or (operator is '>=' and u >= T); so '>' does
\* not fire at u = T, '>=' does, and disk and memory agree.
C26_OperatorSemantics ==
    ({"threshold", "operator"} \subseteq DOMAIN CheckedTrigger) =>
        /\ (Checked("memory_usage") /\ "memory_usage" \in DOMAIN context) =>
              engine_ret.value =
                  Fires(CheckedTrigger.operator, context.memory_usage, CheckedTrigger.threshold)
        /\ (Checked("disk_usage") /\ "disk_usage" \in DOMAIN context) =>
              \A u \in MatchingUsages :
                  MatchingUsages = {u} =>
                      engine_ret.value =
                          Fires(CheckedTrigger.operator, u, CheckedTrigger.threshold)

\* C26 witness: a '>' trigger checked at usage equal to its threshold, not
\* firing, on a disk entry.
C26_Witness ==
    /\ Checked("disk_usage")
    /\ {"threshold", "operator"} \subseteq DOMAIN CheckedTrigger
    /\ CheckedTrigger.operator = ">"
    /\ "disk_usage" \in DOMAIN context
    /\ MatchingUsages = {CheckedTrigger.threshold}
    /\ engine_ret.value = FALSE

\* C27: check_trigger returns false for a runbook that is disabled and for a
\* runbook whose trigger type is neither disk_usage nor memory_usage.
C27_DisabledOrUnknownNeverFires ==
    (engine_ret.op = "check_trigger"
        /\ \/ get(engine_ret.runbook, "enabled", TRUE) = FALSE
           \/ get(CheckedTrigger, "type", "None") \notin {"disk_usage", "memory_usage"}) =>
        engine_ret.value = FALSE

\* C27 witness: a disabled memory_usage runbook checked against a context
\* whose reading satisfies its threshold.
C27_Witness ==
    /\ engine_ret.op = "check_trigger"
    /\ get(engine_ret.runbook, "enabled", TRUE) = FALSE
    /\ get(CheckedTrigger, "type", "None") = "memory_usage"
    /\ {"threshold", "operator"} \subseteq DOMAIN CheckedTrigger
    /\ "memory_usage" \in DOMAIN context
    /\ Fires(CheckedTrigger.operator, context.memory_usage, CheckedTrigger.threshold)
    /\ engine_ret.value = FALSE

\* C28: an enabled disk_usage trigger returns true iff the context has a
\* disk_usage key and some entry on the trigger's filesystem ('/' when
\* omitted) satisfies the operator/threshold test; entries of other
\* filesystems do not count.
C28_DiskFilesystemMatch ==
    Checked("disk_usage") =>
        engine_ret.value =
            /\ "disk_usage" \in DOMAIN context
            /\ \E u \in MatchingUsages :
                  Fires(get(CheckedTrigger, "operator", ">"), u,
                        get(CheckedTrigger, "threshold", DefaultDiskThreshold))

\* C28 witness: a trigger with no filesystem key not firing although another
\* filesystem's entry exceeds its threshold.
C28_Witness ==
    /\ Checked("disk_usage")
    /\ "filesystem" \notin DOMAIN CheckedTrigger
    /\ "disk_usage" \in DOMAIN context
    /\ \E i \in 1..Len(context.disk_usage) :
          /\ context.disk_usage[i].filesystem = "/home"
          /\ Fires(get(CheckedTrigger, "operator", ">"), context.disk_usage[i].usage_percent,
                   get(CheckedTrigger, "threshold", DefaultDiskThreshold))
    /\ engine_ret.value = FALSE


\* the positions of the loaded runbooks whose trigger is met
MatchingPositions == {j \in 1..Len(runbooks) : check_trigger(runbooks[j], context)}
\* the i-th of them in load order
NthMatching(i) ==
    CHOOSE j \in MatchingPositions :
        Cardinality({m \in MatchingPositions : m < j}) = i - 1

\* C29: find_matching_runbooks(context) returns the loaded runbooks whose
\* check_trigger is true, one per loaded position, in load order, and leaves
\* self.runbooks and the context as they were.
C29_FindMatching ==
    [][engine_ret'.op = "find_matching_runbooks" =>
        /\ runbooks' = runbooks
        /\ context' = context
        /\ Len(engine_ret'.value) = Cardinality(MatchingPositions)
        /\ \A i \in 1..Len(engine_ret'.value) :
              engine_ret'.value[i] = runbooks[NthMatching(i)]]_vars

\* C29 witness: two different loaded runbooks, both matching, returned in
\* load order.
C29_Witness ==
    /\ engine_ret.op = "find_matching_runbooks"
    /\ Len(runbooks) = 2
    /\ runbooks[1] # runbooks[2]
    /\ engine_ret.value = runbooks

\* what action number i of the executed runbook must report, and the kind of
\* thing it must have done
ExecutedActions == get(engine_ret.runbook, "actions", <<>>)
ExpectedSuccess(i) ==
    LET action_type == get(ExecutedActions[i], "type", "None") IN
    \/ action_type \in {"alert", "wait"}
    \/ action_type = "command" /\ (engine_ret.dry_run \/ engine_ret.outcomes[i] = "exit_0")
ExpectedDoing(i) ==
    LET action_type == get(ExecutedActions[i], "type", "None") IN
    IF action_type = "alert" THEN {"print_alert", "print_would_alert"}
    ELSE IF action_type = "command" THEN {"spawn", "print_would_run"}
    ELSE IF action_type = "wait" THEN {"sleep", "print_would_wait"}
    ELSE {"none"}

\* C30: execute_runbook goes through the actions in declared order, each
\* exactly once, and returns one result per action in that order, whatever
\* the earlier actions reported.
C30_AllActionsInOrder ==
    engine_ret.op = "execute_runbook" =>
        /\ Len(engine_ret.value.actions) = Len(ExecutedActions)
        /\ Len(engine_ret.effects) = Len(ExecutedActions)
        /\ \A i \in 1..Len(ExecutedActions) :
              /\ engine_ret.effects[i].step = i
              /\ engine_ret.effects[i].did \in ExpectedDoing(i)
              /\ engine_ret.value.actions[i].success = ExpectedSuccess(i)

\* C30 witness: a live run whose first action is of an unknown type and
\* reports failure, and whose second action, a command, was spawned and
\* succeeded.
C30_Witness ==
    /\ engine_ret.op = "execute_runbook"
    /\ ~engine_ret.dry_run
    /\ Len(ExecutedActions) = 2
    /\ engine_ret.value.actions[1] = [success |-> FALSE]
    /\ engine_ret.effects[2].step = 2
    /\ engine_ret.effects[2].did = "spawn"
    /\ engine_ret.value.actions[2] = [success |-> TRUE, type |-> "command"]


\* C37: once a shutdown signal has been handled, whether before run() was
\* called or while the loop was running, no tick is started. The code breaks
\* it for a signal handled before run(): run() sets self.running = True.
C37_SignalNeverLost ==
    [][(early_signal \/ signalled) => ~(pc = "loop" /\ pc' = "health_test")]_vars


\* C38: an add or add_batch call leaves every record stored before it as it
\* was (same position, same embedding, same text and metadata) and does not
\* lower count(). The code breaks it: the store keeps the caller's dict
\* object, and a later add with the same object rewrites its 'text'.
C38_StoredRecordsNeverChange ==
    [][store_ret'.op \in {"add", "add_batch"} =>
        /\ count' >= count
        /\ Len(metadata') >= Len(metadata)
        /\ \A i \in 1..Len(metadata) :
              Content(metadata'[i], dicts') = Content(metadata[i], dicts)
        /\ \A i \in 1..Len(index) : index'[i] = index[i]]_vars


\* the positions of the executed runbook's actions of the given type
ActionsOfType(type) ==
    {i \in 1..Len(ExecutedActions) : get(ExecutedActions[i], "type", "None") = type}

\* C31: a command action under dry_run spawns nothing and reports success
\* with the dry_run marker; live, it calls subprocess.run with the action's
\* shell string and its declared timeout and reports success iff the command
\* exits with status 0; a timeout or spawn failure is reported as
\* success=false, execute_runbook returning as usual.
C31_CommandAction ==
    engine_ret.op = "execute_runbook" =>
        \A i \in ActionsOfType("command") :
            IF engine_ret.dry_run
            THEN /\ engine_ret.effects[i].did # "spawn"
                 /\ engine_ret.value.actions[i] =
                       [success |-> TRUE, type |-> "command", dry_run |-> TRUE]
            ELSE /\ engine_ret.effects[i].did = "spawn"
                 /\ engine_ret.effects[i].run = ExecutedActions[i].run
                 /\ engine_ret.effects[i].timeout =
                       get(ExecutedActions[i], "timeout", DefaultCommandTimeout)
                 /\ engine_ret.value.actions[i] =
                       [success |-> (engine_ret.outcomes[i] = "exit_0"), type |-> "command"]

\* C31 witness: a live command with a declared timeout exits with a status
\* other than 0 and is reported as failed; the command after it raises in
\* subprocess.run and is reported as failed too.
C31_Witness ==
    /\ engine_ret.op = "execute_runbook"
    /\ ~engine_ret.dry_run
    /\ ActionsOfType("command") = {1, 2}
    /\ "timeout" \in DOMAIN ExecutedActions[1]
    /\ engine_ret.outcomes = <<"exit_1", "raised">>
    /\ engine_ret.value.actions[1].success = FALSE
    /\ engine_ret.value.actions[2].success = FALSE

\* C32: an alert action of a live run hands its message and severity to
\* AlertSystem.send_alert, and one of a dry run does not. The code breaks the
\* first half: _execute_alert only prints, in both modes.
C32_AlertReachesSink ==
    engine_ret.op = "execute_runbook" =>
        \A i \in ActionsOfType("alert") :
            /\ engine_ret.value.actions[i].success
            /\ (engine_ret.effects[i].did = "send_alert") = ~engine_ret.dry_run

\* C33: load_runbooks on a file that is malformed YAML, not a mapping, or
\* has a null runbooks entry returns with self.runbooks empty, whatever the
\* engine held before, so find_matching_runbooks returns no runbook for any
\* context.
C33_UnparsableMeansEmpty ==
    [][(engine_ret'.op = "load_runbooks" /\ engine_ret'.source.exists
           /\ engine_ret'.source.shape \in BadShapes) =>
        /\ runbooks' = <<>>
        /\ \A ctx \in Contexts : find_matching_runbooks(runbooks', ctx) = <<>>]_vars

\* C33 witness: an engine holding two runbooks reloads from a file with a
\* null runbooks entry and holds none.
C33_Witness ==
    /\ engine_ret.op = "load_runbooks"
    /\ engine_ret.source.shape = "null_runbooks"
    /\ engine_ret.held = 2
    /\ runbooks = <<>>

\* C39: after every load_runbooks call the engine holds exactly the runbooks
\* of the current source: its list, or none when the file is missing or
\* cannot be parsed. The code breaks it for a missing file: load_runbooks
\* returns at once and the engine keeps the runbooks of the earlier load.
C39_LoadReplacesWholeSet ==
    [][engine_ret'.op = "load_runbooks" =>
        runbooks' = IF engine_ret'.source.exists /\ engine_ret'.source.shape = "list"
                    THEN engine_ret'.source.runbooks
                    ELSE <<>>]_vars


\* the LLM answer of the last call is a planning failure: the call failed, the
\* text cannot be parsed, or the object lacks one of the three keys
PlanningFailed ==
    \/ agent_ret.llm.kind \in {"fails", "garbage", "not_object"}
    \/ agent_ret.llm.kind = "object" /\ ~(PlanKeys \subseteq DOMAIN agent_ret.llm.payload)

\* C34: on a planning failure plan() returns, without raising, a plan that
\* has goal, tools and reasoning, with tools empty and the error marked; ask
\* then returns before executing anything and logs no incident; and
\* execute_plan on such a plan invokes no probe.
C34_PlanningFailureRunsNothing ==
    /\ (agent_ret.op \in {"plan", "ask"} /\ PlanningFailed) =>
          /\ ~agent_ret.raised
          /\ PlanKeys \subseteq DOMAIN agent_ret.plan
          /\ "error" \in DOMAIN agent_ret.plan
          /\ agent_ret.plan.tools = <<>>
    /\ (agent_ret.op = "ask" /\ PlanningFailed) =>
          /\ ~agent_ret.executed
          /\ agent_ret.probes = <<>>
          /\ ~agent_ret.logged
    /\ (agent_ret.op = "execute_plan" /\ "error" \in DOMAIN agent_ret.plan) =>
          /\ agent_ret.probes = <<>>
          /\ agent_ret.results.tools_executed = 0

\* C34 witness: ask on an LLM answer that names a probe but lacks the
\* reasoning key, on a live executor: nothing executed, nothing logged.
C34_Witness ==
    /\ agent_ret.op = "ask"
    /\ ~executor_dry_run
    /\ agent_ret.llm.kind = "object"
    /\ DOMAIN agent_ret.llm.payload = {"goal", "tools"}
    /\ agent_ret.llm.payload.tools = <<"disk_usage">>
    /\ "disk_usage" \in available_tools
    /\ ~agent_ret.executed
    /\ agent_ret.plan.tools = <<>>

\* the tools of the plan last executed
ExecutedTools == get(agent_ret.plan, "tools", <<>>)

C36_AlertNeverRaises ==
    agent_ret.op = "send_alert" =>
        /\ ~agent_ret.raised
        /\ ~alert_enabled => agent_ret.delivered = {}

\* C40: a plan returned by plan() names only tools of the configured
\* allow-list, so everything ask executes for it is on the allow-list.
C40_PlanWithinAllowList ==
    agent_ret.op \in {"plan", "ask"} =>
        /\ "tools" \in DOMAIN agent_ret.plan
        /\ \A i \in 1..Len(agent_ret.plan.tools) : agent_ret.plan.tools[i] \in available_tools
        /\ \A i \in 1..Len(agent_ret.results.results) :
              agent_ret.results.results[i].tool \in available_tools
        /\ \A i \in 1..Len(agent_ret.probes) : agent_ret.probes[i] \in available_tools

\* C40 witness: the LLM names a tool off the allow-list and one on it; the
\* plan keeps the one on it.
C40_Witness ==
    /\ agent_ret.op = "plan"
    /\ agent_ret.llm.kind = "object"
    /\ PlanKeys \subseteq DOMAIN agent_ret.llm.payload
    /\ agent_ret.llm.payload.tools = <<"rm_rf", "disk_usage">>
    /\ "rm_rf" \notin available_tools
    /\ agent_ret.plan.tools = <<"disk_usage">>


====
